---- MODULE Spec2Model ----
(***************************************************************************)
(* State-machine model of app.py: the per-session download supervisor      *)
(* (download_model / execute_ollama_pull / get_download_progress /        *)
(* cancel_download) and the per-session conversation store and engine      *)
(* (get_chat_session / CharacterChat / send_message ...).                  *)
(*                                                                         *)
(* The server runs with threaded=True: every request handler and every     *)
(* download thread is a sequence of atomic steps (one access to a shared   *)
(* dict or object per step) that interleave freely.                        *)
(***************************************************************************)
EXTENDS Integers, Sequences, FiniteSets, TLC

\* ------------------------------------------------------------------ bounds

\* Session identifiers of the clients that take part: 1..NumClients.
NumClients == 2
\* Thread objects of download_model that exist at the same time.
MaxTasks == 2
\* time.time() advances in steps of TickStep seconds up to MaxTime.
TickStep == 30
MaxTime == 60
\* CharacterChat objects that exist at the same time.
MaxObjs == 3
\* Requests handled at the same time.
MaxReqs == 2
\* Messages of one transcript.
MaxMsgs == 4
MaxScript == 3
MaxInput == 4
MaxName == 3

\* ------------------------------------------------------- program constants

\* get_download_progress: finished jobs are dropped when elapsed > 30.
GraceWindow == 30
\* execute_ollama_pull: min(percent, 95) while the pull is running.
ProgressCap == 95
\* cleanup_old_sessions: more than 100 sessions, the oldest 50 are dropped.
SessionLimit == 100
EvictBatch == 50

ClientIds == 1..NumClients
TaskIds == 1..MaxTasks
NoThread == 0
\* process.poll() is None: the external process has not exited.
RcNone == -1
ExitCodes == {0, 1}
\* The model name the n-th download request of a behaviour asks for
\* (get_popular_models, lines 1194-1229); the code never compares two names.
ModelNames == <<"llama3.2:3b", "llama3.2:1b", "phi3:mini", "gemma2:2b">>
ModelOf(t) == ModelNames[((t - 1) % Len(ModelNames)) + 1]

VARIABLES
    download_progress,  \* dict session_id -> job record (NoJob: key absent)
    download_threads,   \* dict session_id -> tracked thread (NoThread: key absent)
    threads,            \* every threading.Thread of download_model, by TaskId
    job_task,           \* history: the thread whose line 191 created the record
    job_signal,         \* history: that thread has read a success line or exit code 0
    now,                \* time.time()
    chat_sessions,      \* dict session_id -> CharacterChat, in insertion order
    objs,               \* the CharacterChat objects, by ObjId
    character_file,     \* characters.json (NoFile: it does not exist)
    reqs,               \* the requests being handled, one per worker thread
    script,             \* what the process of a scripted pull emits, and how far it got
    observed            \* history: the progress values a scripted pull has written

dlvars == <<download_progress, download_threads, threads, job_task, job_signal, now>>
chatvars == <<chat_sessions, objs, character_file, reqs>>
scriptvars == <<script, observed>>
vars == <<download_progress, download_threads, threads, job_task, job_signal, now,
          chat_sessions, objs, character_file, reqs, script, observed>>

\* ------------------------------------------------------------ job records

Msg(kind, model, a, b) == [kind |-> kind, model |-> model, a |-> a, b |-> b]

NoJob ==
    [status |-> "absent", model |-> "", progress |-> 0,
     message |-> Msg("", "", 0, 0), started_at |-> 0]

\* download_progress[session_id] = {...}  (lines 191-197)
InitialRecord(model, t) ==
    [status |-> "downloading", model |-> model, progress |-> 0,
     message |-> Msg("Initializing download of", model, 0, 0), started_at |-> t]

HasJob(s) == download_progress[s].status # "absent"

\* ------------------------------------------------------------- pull output

\* One output line of `ollama pull`, by what the three patterns of the parser
\* read in it: size = <<current, total>> in tenths of a unit when
\* r'pulling\s+\w+\.\.\.\s+([\d.]+)\w+/([\d.]+)\w+' matches (<<>> otherwise),
\* pct = <<n>> when r'(\d+)%' matches, kw = the substrings of line.lower().
Line(text, size, pct, kw) == [text |-> text, size |-> size, pct |-> pct, kw |-> kw]

Lines ==
    { Line("pulling manifest", <<>>, <<>>, {"pulling manifest", "pulling"}),
      Line("pulling config...", <<>>, <<>>, {"pulling", "config"}),
      Line("pulling abc123... 50.0MB/100.0MB", <<500, 1000>>, <<>>, {"pulling"}),
      Line("pulling abc123... 0B/0B", <<0, 0>>, <<>>, {"pulling"}),
      Line("45%", <<>>, <<45>>, {}),
      Line("100%", <<>>, <<100>>, {}),
      Line("verifying sha256 digest", <<>>, <<>>, {"verifying"}),
      Line("success", <<>>, <<>>, {"success"}),
      Line("writing manifest", <<>>, <<>>, {}) }

\* The lines the processes of the concurrent specification emit.
PullLines ==
    { l \in Lines : l.text \in {"pulling manifest", "pulling abc123... 50.0MB/100.0MB",
                                "success", "writing manifest"} }

Min(a, b) == IF a <= b THEN a ELSE b

\* The fields one line makes the loop write with download_progress[sid].update
\* (lines 259-308); the empty record when the line updates nothing.
NoUpdate == [x \in {} |-> 0]

\* Pattern 1 sets progress_updated (lines 263-273).
SizeMatches(line) == Len(line.size) = 2 /\ line.size[2] > 0

\* The ratio taken for the percentage.
SizeRuleRatio(line, model) ==
    [progress |-> Min(line.size[1] \div line.size[2], ProgressCap),
     message |-> Msg("Downloading", model, line.size[1], line.size[2])]

SizeRule(line, model) ==
    [progress |-> Min((line.size[1] * 100) \div line.size[2], ProgressCap),
     message |-> Msg("Downloading", model, line.size[1], line.size[2])]

\* Pattern 2 sets progress_updated (lines 276-284).
PercentMatches(line) == Len(line.pct) = 1

PercentRule(line, model) ==
    [progress |-> Min(line.pct[1], ProgressCap),
     message |-> Msg("Downloading %", model, line.pct[1], 0)]

StatusRule(line, model) ==
    IF "pulling manifest" \in line.kw
    THEN [progress |-> 10, message |-> Msg("Fetching manifest", model, 0, 0)]
    ELSE IF "pulling" \in line.kw /\ "config" \in line.kw
    THEN [progress |-> 15, message |-> Msg("Downloading configuration", model, 0, 0)]
    ELSE IF "verifying" \in line.kw
    THEN [progress |-> 90, message |-> Msg("Verifying", model, 0, 0)]
    ELSE IF "success" \in line.kw \/ "complete" \in line.kw
    THEN [status |-> "completed", progress |-> 100,
          message |-> Msg("Successfully downloaded", model, 0, 0)]
    ELSE NoUpdate

\* The parser looking for the phase keywords before the numbers.
ParseLineKeywordsFirst(line, model) ==
    IF StatusRule(line, model) # NoUpdate THEN StatusRule(line, model)
    ELSE IF SizeMatches(line) THEN SizeRule(line, model)
    ELSE IF PercentMatches(line) THEN PercentRule(line, model)
    ELSE NoUpdate

ParseLine(line, model) ==
    IF SizeMatches(line) THEN SizeRule(line, model)
    ELSE IF PercentMatches(line) THEN PercentRule(line, model)
    ELSE StatusRule(line, model)

Writes(upd) == DOMAIN upd # {}

\* dict.update: the given keys are overwritten, the others kept.
Update(rec, upd) ==
    [k \in DOMAIN rec |-> IF k \in DOMAIN upd THEN upd[k] ELSE rec[k]]

\* ---------------------------------------------------------------- threads

\* req: where the download_model request that owns the slot stands
\*      (idle, checked: past line 1102, started: past line 1135, done);
\* pc:  where the thread's target stands (unborn, init, check, loop, final,
\*      except, finally, dead);
\* rc:  process.poll() as read at line 318 (kept while pc = "final").
FreeThread ==
    [sid |-> 0, model |-> "", req |-> "idle", pc |-> "unborn", rc |-> RcNone]

\* threading.Thread.is_alive()
IsAlive(t) == threads[t].pc \notin {"unborn", "dead"}

\* A Thread object that has finished and that nothing refers to any more is
\* collected; its slot stands for the next Thread that is created.
Collectable(t) ==
    /\ threads[t].pc = "dead"
    /\ threads[t].req = "done"
    /\ \A s \in ClientIds : download_threads[s] # t /\ job_task[s] # t

FreeSlots == {t \in TaskIds : threads[t] = FreeThread \/ Collectable(t)}

Lowest(S) == CHOOSE x \in S : \A y \in S : x <= y

\* No pull is scripted.
NoScript == [lines |-> <<>>, rc |-> RcNone, next |-> 1]

DownloadInit ==
    /\ download_progress = [s \in ClientIds |-> NoJob]
    /\ download_threads = [s \in ClientIds |-> NoThread]
    /\ threads = [t \in TaskIds |-> FreeThread]
    /\ job_task = [s \in ClientIds |-> NoThread]
    /\ job_signal = [s \in ClientIds |-> FALSE]
    /\ now = 0
    /\ script = NoScript
    /\ observed = <<>>

\* ------------------------------------------------- download_model (request)

\* line 1097: empty model name.
StartEmpty(s) ==
    /\ s \in ClientIds
    /\ UNCHANGED <<dlvars, scriptvars>>
    /\ UNCHANGED <<chatvars, scriptvars>>

\* line 1101: the guard of download_model.
AlreadyDownloading(s) ==
    download_threads[s] # NoThread /\ IsAlive(download_threads[s])

\* lines 1101-1102: 'A download is already in progress'.
StartConflict(s) ==
    /\ AlreadyDownloading(s)
    /\ UNCHANGED <<dlvars, scriptvars>>
    /\ UNCHANGED <<chatvars, scriptvars>>

\* lines 1093-1102 passed: the request goes on to the `ollama --version` test.
StartCheck(s) ==
    /\ ~AlreadyDownloading(s)
    /\ FreeSlots # {}
    /\ LET t == Lowest(FreeSlots) IN
       threads' = [threads EXCEPT ![t] =
                      [FreeThread EXCEPT !.sid = s, !.model = ModelOf(t), !.req = "checked"]]
    /\ UNCHANGED <<download_progress, download_threads, job_task, job_signal, now>>
    /\ UNCHANGED <<chatvars, scriptvars>>

\* lines 1109-1114: `ollama --version` fails, the request returns a failure.
StartToolMissing(t) ==
    /\ threads[t].req = "checked"
    /\ threads' = [threads EXCEPT ![t] = FreeThread]
    /\ UNCHANGED <<download_progress, download_threads, job_task, job_signal, now>>
    /\ UNCHANGED <<chatvars, scriptvars>>

\* line 1135: download_thread.start().
StartLaunch(t) ==
    /\ threads[t].req = "checked"
    /\ threads' = [threads EXCEPT ![t].req = "started", ![t].pc = "init"]
    /\ UNCHANGED <<download_progress, download_threads, job_task, job_signal, now>>
    /\ UNCHANGED <<chatvars, scriptvars>>

\* line 1138: download_threads[session_id] = download_thread; success returned.
StartTrack(t) ==
    /\ threads[t].req = "started"
    /\ download_threads' = [download_threads EXCEPT ![threads[t].sid] = t]
    /\ threads' = [threads EXCEPT ![t].req = "done"]
    /\ UNCHANGED <<download_progress, job_task, job_signal, now>>
    /\ UNCHANGED <<chatvars, scriptvars>>

\* ------------------------------------------- execute_ollama_pull (thread)

\* download_progress[session_id].update(upd) by thread t, then pc `next`;
\* KeyError when the key is absent, which takes the thread to `onKeyError`.
UpdateOrRaise(t, upd, next, onKeyError) ==
    LET s == threads[t].sid IN
    IF HasJob(s)
    THEN /\ download_progress' =
                [download_progress EXCEPT ![s] = Update(download_progress[s], upd)]
         /\ threads' = [threads EXCEPT ![t].pc = next, ![t].rc = RcNone]
    ELSE /\ threads' = [threads EXCEPT ![t].pc = onKeyError, ![t].rc = RcNone]
         /\ UNCHANGED download_progress

\* lines 191-197.
PullInit(t) ==
    /\ threads[t].pc = "init"
    /\ download_progress' =
           [download_progress EXCEPT ![threads[t].sid] = InitialRecord(threads[t].model, now)]
    /\ job_task' = [job_task EXCEPT ![threads[t].sid] = t]
    /\ job_signal' = [job_signal EXCEPT ![threads[t].sid] = FALSE]
    /\ threads' = [threads EXCEPT ![t].pc = "check"]
    /\ UNCHANGED <<download_threads, now>>
    /\ UNCHANGED <<chatvars, scriptvars>>

\* lines 200-208: `ollama --version` fails inside the thread.
PullUnavailable(t) ==
    /\ threads[t].pc = "check"
    /\ UpdateOrRaise(t, [status |-> "error", progress |-> 0,
                         message |-> Msg("Ollama is not installed", "", 0, 0)],
                     "finally", "except")
    /\ UNCHANGED <<download_threads, job_task, job_signal, now>>
    /\ UNCHANGED <<chatvars, scriptvars>>

\* lines 211-246: the process is started, progress 5.
PullConnect(t) ==
    /\ threads[t].pc = "check"
    /\ UpdateOrRaise(t, [progress |-> 5,
                         message |-> Msg("Connecting to download", threads[t].model, 0, 0)],
                     "loop", "except")
    /\ UNCHANGED <<download_threads, job_task, job_signal, now>>
    /\ UNCHANGED <<chatvars, scriptvars>>

\* lines 219-229 raise (Popen cannot run the command): line 343.
PullSpawnError(t) ==
    /\ threads[t].pc = "check"
    /\ threads' = [threads EXCEPT ![t].pc = "except"]
    /\ UNCHANGED <<download_progress, download_threads, job_task, job_signal, now>>
    /\ UNCHANGED <<chatvars, scriptvars>>

\* lines 313-318: an exception inside the loop breaks out of it, and
\* process.poll() is read while the process may still be running.
BreakLoop(t, rc) ==
    /\ threads' = [threads EXCEPT ![t].pc = "final", ![t].rc = rc]
    /\ job_signal' = [job_signal EXCEPT ![threads[t].sid] =
                          @ \/ (rc = 0 /\ job_task[threads[t].sid] = t)]

\* lines 251-308: one line of output is read and parsed.
PullLine(t, line) ==
    /\ threads[t].pc = "loop"
    /\ LET th == threads[t]
           upd == ParseLine(line, th.model)
       IN  IF ~Writes(upd)
           THEN UNCHANGED <<download_progress, threads, job_signal>>
           ELSE IF HasJob(th.sid)
           THEN /\ download_progress' =
                       [download_progress EXCEPT ![th.sid] = Update(download_progress[th.sid], upd)]
                /\ job_signal' = [job_signal EXCEPT ![th.sid] =
                                      @ \/ ("status" \in DOMAIN upd /\ job_task[th.sid] = t)]
                /\ UNCHANGED threads
           ELSE /\ \E rc \in {RcNone} \cup ExitCodes : BreakLoop(t, rc)
                /\ UNCHANGED download_progress
    /\ UNCHANGED <<download_threads, job_task, now>>
    /\ UNCHANGED <<chatvars, scriptvars>>

\* lines 251-253: readline returns '' and the process has exited.
PullEOF(t, rc) ==
    /\ threads[t].pc = "loop"
    /\ rc \in ExitCodes
    /\ BreakLoop(t, rc)
    /\ UNCHANGED <<download_progress, download_threads, job_task, now>>
    /\ UNCHANGED <<chatvars, scriptvars>>

\* lines 313-315: reading the output raises.
PullReadError(t, rc) ==
    /\ threads[t].pc = "loop"
    /\ rc \in {RcNone} \cup ExitCodes
    /\ BreakLoop(t, rc)
    /\ UNCHANGED <<download_progress, download_threads, job_task, now>>
    /\ UNCHANGED <<chatvars, scriptvars>>

\* The final update of a pull whose exit code is not looked at.
FinalUpdateAnyCode(model, rc) ==
    [status |-> "completed", progress |-> 100,
     message |-> Msg("Successfully downloaded", model, 0, 0)]

\* lines 318-341.
FinalUpdate(model, rc) ==
    IF rc = 0
    THEN [status |-> "completed", progress |-> 100,
          message |-> Msg("Successfully downloaded", model, 0, 0)]
    ELSE [status |-> "error", progress |-> 0,
          message |-> Msg("Failed to download: Process returned code", model, rc, 0)]

PullFinal(t) ==
    /\ threads[t].pc = "final"
    /\ UpdateOrRaise(t, FinalUpdate(threads[t].model, threads[t].rc), "finally", "except")
    /\ UNCHANGED <<download_threads, job_task, job_signal, now>>
    /\ UNCHANGED <<chatvars, scriptvars>>

\* lines 343-350: the handler's own update raises KeyError when the record is
\* gone; either way the finally clause runs next.
PullExcept(t) ==
    /\ threads[t].pc = "except"
    /\ UpdateOrRaise(t, [status |-> "error", progress |-> 0,
                         message |-> Msg("Error downloading", threads[t].model, 0, 0)],
                     "finally", "finally")
    /\ UNCHANGED <<download_threads, job_task, job_signal, now>>
    /\ UNCHANGED <<chatvars, scriptvars>>

\* lines 351-354.
PullFinally(t) ==
    /\ threads[t].pc = "finally"
    /\ download_threads' = [download_threads EXCEPT ![threads[t].sid] = NoThread]
    /\ threads' = [threads EXCEPT ![t].pc = "dead"]
    /\ UNCHANGED <<download_progress, job_task, job_signal, now>>
    /\ UNCHANGED <<chatvars, scriptvars>>

\* ------------------------------------------------------- poll and cancel

Terminal(status) == status \in {"completed", "error"}

\* get_download_progress, lines 1155-1173.
Poll(s) ==
    /\ IF HasJob(s) /\ Terminal(download_progress[s].status)
          /\ now - download_progress[s].started_at > GraceWindow
       THEN /\ download_progress' = [download_progress EXCEPT ![s] = NoJob]
            /\ job_task' = [job_task EXCEPT ![s] = NoThread]
            /\ job_signal' = [job_signal EXCEPT ![s] = FALSE]
       ELSE UNCHANGED <<download_progress, job_task, job_signal>>
    /\ UNCHANGED <<download_threads, threads, now>>
    /\ UNCHANGED <<chatvars, scriptvars>>

\* cancel_download, lines 1178-1188.
Cancel(s) ==
    /\ download_progress' = [download_progress EXCEPT ![s] = NoJob]
    /\ job_task' = [job_task EXCEPT ![s] = NoThread]
    /\ job_signal' = [job_signal EXCEPT ![s] = FALSE]
    /\ download_threads' = [download_threads EXCEPT ![s] = NoThread]
    /\ UNCHANGED <<threads, now>>
    /\ UNCHANGED <<chatvars, scriptvars>>

\* time.time() advances.
Tick ==
    /\ now + TickStep <= MaxTime
    /\ now' = now + TickStep
    /\ UNCHANGED <<download_progress, download_threads, threads, job_task, job_signal>>
    /\ UNCHANGED <<chatvars, scriptvars>>

\* The download operations of one client and of the threads they launch.
DownloadClients == {1}

\* The steps of a download request that passed the guard.
StartSteps ==
    \/ \E t \in TaskIds : StartToolMissing(t)
    \/ \E t \in TaskIds : StartLaunch(t)
    \/ \E t \in TaskIds : StartTrack(t)

\* The steps of the download threads.
PullSteps ==
    \/ \E t \in TaskIds : PullInit(t)
    \/ \E t \in TaskIds : PullUnavailable(t)
    \/ \E t \in TaskIds : PullConnect(t)
    \/ \E t \in TaskIds : PullSpawnError(t)
    \/ \E t \in TaskIds, line \in PullLines : PullLine(t, line)
    \/ \E t \in TaskIds, rc \in ExitCodes : PullEOF(t, rc)
    \/ \E t \in TaskIds, rc \in {RcNone} \cup ExitCodes : PullReadError(t, rc)
    \/ \E t \in TaskIds : PullFinal(t)
    \/ \E t \in TaskIds : PullExcept(t)
    \/ \E t \in TaskIds : PullFinally(t)

\* ------------------------------------------------------- a scripted pull

\* The runs of `ollama pull` whose output and exit code are given: at most
\* MaxScript lines, then the exit.
SeqsUpTo(S, n) == UNION {[1..k -> S] : k \in 0..n}

Scripts ==
    {[lines |-> ls, rc |-> rc, next |-> 1] : ls \in SeqsUpTo(Lines, MaxScript), rc \in ExitCodes}

\* lines 251-308 with the scripted process: the next line is read and parsed.
FeedLine(t) ==
    /\ threads[t].pc = "loop"
    /\ script.next <= Len(script.lines)
    /\ LET th == threads[t]
           upd == ParseLine(script.lines[script.next], th.model)
       IN  IF Writes(upd)
           THEN /\ download_progress' =
                       [download_progress EXCEPT ![th.sid] = Update(download_progress[th.sid], upd)]
                /\ job_signal' = [job_signal EXCEPT ![th.sid] =
                                      @ \/ ("status" \in DOMAIN upd /\ job_task[th.sid] = t)]
                /\ observed' = Append(observed, upd.progress)
           ELSE UNCHANGED <<download_progress, job_signal, observed>>
    /\ script' = [script EXCEPT !.next = @ + 1]
    /\ UNCHANGED <<download_threads, threads, job_task, now>>
    /\ UNCHANGED chatvars

\* lines 251-253 and 318: the output is exhausted and the process has exited.
FeedExit(t) ==
    /\ threads[t].pc = "loop"
    /\ script.next > Len(script.lines)
    /\ BreakLoop(t, script.rc)
    /\ UNCHANGED <<download_progress, download_threads, job_task, now>>
    /\ UNCHANGED <<chatvars, scriptvars>>

\* lines 318-341 of the scripted pull.
FeedFinal(t) ==
    /\ threads[t].pc = "final"
    /\ observed' = Append(observed, FinalUpdate(threads[t].model, threads[t].rc).progress)
    /\ UpdateOrRaise(t, FinalUpdate(threads[t].model, threads[t].rc), "finally", "except")
    /\ UNCHANGED <<download_threads, job_task, job_signal, now>>
    /\ UNCHANGED <<chatvars, script>>

\* ---------------------------------------- download_model_via_api (thread)

\* lines 359-365.
ApiInitialRecord(model, t) ==
    [status |-> "downloading", model |-> model, progress |-> 0,
     message |-> Msg("Starting API download of", model, 0, 0), started_at |-> t]

\* One line of the response of POST /api/pull: json is FALSE when the line is
\* not JSON; status = <<s>> when the object has a 'status' key; counts =
\* <<completed, total>> when it has both keys.
ApiLine(json, status, counts) == [json |-> json, status |-> status, counts |-> counts]

ApiLines ==
    { ApiLine(TRUE, <<"pulling manifest">>, <<>>),
      ApiLine(TRUE, <<"pulling abc123">>, <<50, 100>>),
      ApiLine(TRUE, <<"pulling abc123">>, <<100, 100>>),
      ApiLine(TRUE, <<"pulling abc123">>, <<150, 100>>),
      ApiLine(TRUE, <<"pulling abc123">>, <<0, 0>>),
      ApiLine(TRUE, <<"success">>, <<>>),
      ApiLine(FALSE, <<>>, <<>>) }

\* lines 384-395: what a line with a 'status' key writes.
ApiUpdate(data) ==
    IF data.counts # <<>> /\ data.counts[2] > 0
    THEN LET progress == (data.counts[1] * 100) \div data.counts[2] IN
         [progress |-> progress, message |-> Msg(data.status[1], "", progress, 0)]
    ELSE [message |-> Msg(data.status[1], "", 0, 0)]

\* line 1122-1127 and 1135: the request asked for method 'api'.
StartLaunchApi(t) ==
    /\ threads[t].req = "checked"
    /\ threads' = [threads EXCEPT ![t].req = "started", ![t].pc = "api_init"]
    /\ UNCHANGED <<download_progress, download_threads, job_task, job_signal, now>>
    /\ UNCHANGED <<chatvars, scriptvars>>

\* lines 359-365.
ApiInit(t) ==
    /\ threads[t].pc = "api_init"
    /\ download_progress' =
           [download_progress EXCEPT ![threads[t].sid] = ApiInitialRecord(threads[t].model, now)]
    /\ job_task' = [job_task EXCEPT ![threads[t].sid] = t]
    /\ job_signal' = [job_signal EXCEPT ![threads[t].sid] = FALSE]
    /\ threads' = [threads EXCEPT ![t].pc = "api_post"]
    /\ UNCHANGED <<download_threads, now>>
    /\ UNCHANGED <<chatvars, scriptvars>>

\* line 371 raises ConnectionError: lines 409-413. A KeyError of the
\* handler's own update leaves the thread through the finally clause.
ApiConnectionError(t) ==
    /\ threads[t].pc = "api_post"
    /\ UpdateOrRaise(t, [status |-> "error",
                         message |-> Msg("Cannot connect to Ollama server", "", 0, 0)],
                     "api_finally", "api_finally")
    /\ UNCHANGED <<download_threads, job_task, job_signal, now>>
    /\ UNCHANGED <<chatvars, scriptvars>>

\* lines 373-378: the server answers with another status code than 200.
ApiBadStatus(t) ==
    /\ threads[t].pc = "api_post"
    /\ UpdateOrRaise(t, [status |-> "error", message |-> Msg("API Error", "", 500, 0)],
                     "api_finally", "api_finally")
    /\ UNCHANGED <<download_threads, job_task, job_signal, now>>
    /\ UNCHANGED <<chatvars, scriptvars>>

\* line 371 returns status code 200.
ApiConnect(t) ==
    /\ threads[t].pc = "api_post"
    /\ threads' = [threads EXCEPT ![t].pc = "api_stream"]
    /\ UNCHANGED <<download_progress, download_threads, job_task, job_signal, now>>
    /\ UNCHANGED <<chatvars, scriptvars>>

\* lines 380-407: one line of the stream is read; a 'success' line goes on to
\* line 397, a KeyError of the update to the handler of line 414, whose own
\* update raises again.
ApiRead(t, data) ==
    /\ threads[t].pc = "api_stream"
    /\ IF data.json /\ data.status # <<>>
       THEN /\ UpdateOrRaise(t, ApiUpdate(data),
                             IF data.status[1] = "success" THEN "api_success" ELSE "api_stream",
                             "api_finally")
            /\ job_signal' = [job_signal EXCEPT ![threads[t].sid] =
                                  @ \/ (data.status[1] = "success" /\ HasJob(threads[t].sid)
                                        /\ job_task[threads[t].sid] = t)]
       ELSE UNCHANGED <<download_progress, threads, job_signal>>
    /\ UNCHANGED <<download_threads, job_task, now>>
    /\ UNCHANGED <<chatvars, scriptvars>>

\* lines 397-403.
ApiSuccess(t) ==
    /\ threads[t].pc = "api_success"
    /\ UpdateOrRaise(t, [status |-> "completed", progress |-> 100,
                         message |-> Msg("Successfully downloaded", threads[t].model, 0, 0)],
                     "api_finally", "api_finally")
    /\ UNCHANGED <<download_threads, job_task, job_signal, now>>
    /\ UNCHANGED <<chatvars, scriptvars>>

\* line 380 raises while the stream is read: lines 414-418.
ApiStreamError(t) ==
    /\ threads[t].pc = "api_stream"
    /\ UpdateOrRaise(t, [status |-> "error", message |-> Msg("API Error", "", 0, 0)],
                     "api_finally", "api_finally")
    /\ UNCHANGED <<download_threads, job_task, job_signal, now>>
    /\ UNCHANGED <<chatvars, scriptvars>>

\* line 380: the stream ends and the loop is left.
ApiStreamEnd(t) ==
    /\ threads[t].pc = "api_stream"
    /\ threads' = [threads EXCEPT ![t].pc = "api_finally"]
    /\ UNCHANGED <<download_progress, download_threads, job_task, job_signal, now>>
    /\ UNCHANGED <<chatvars, scriptvars>>

\* lines 419-422.
ApiFinally(t) ==
    /\ threads[t].pc = "api_finally"
    /\ download_threads' = [download_threads EXCEPT ![threads[t].sid] = NoThread]
    /\ threads' = [threads EXCEPT ![t].pc = "dead"]
    /\ UNCHANGED <<download_progress, job_task, job_signal, now>>
    /\ UNCHANGED <<chatvars, scriptvars>>

\* The steps of the threads that download through the REST API.
ApiSteps ==
    \/ \E t \in TaskIds : ApiInit(t)
    \/ \E t \in TaskIds : ApiConnectionError(t)
    \/ \E t \in TaskIds : ApiBadStatus(t)
    \/ \E t \in TaskIds : ApiConnect(t)
    \/ \E t \in TaskIds, data \in ApiLines : ApiRead(t, data)
    \/ \E t \in TaskIds : ApiSuccess(t)
    \/ \E t \in TaskIds : ApiStreamError(t)
    \/ \E t \in TaskIds : ApiStreamEnd(t)
    \/ \E t \in TaskIds : ApiFinally(t)

\* ------------------------------------------------------ character presets

\* One entry of characters.json; user_profile is an optional key.
Preset(name, role, system_prompt, image_caption_prompt, has_user_profile, user_profile) ==
    [name |-> name, role |-> role, system_prompt |-> system_prompt,
     image_caption_prompt |-> image_caption_prompt,
     has_user_profile |-> has_user_profile, user_profile |-> user_profile]

\* current_character is None.
NoCharacter == Preset("", "", "", "", FALSE, "")

\* load_characters, lines 436-461.
DefaultCharacters ==
    ("assistant" :> Preset("Assistant", "Helpful AI Assistant",
                           "You are a helpful AI assistant. Be friendly, informative, and helpful in all interactions.",
                           "Describe this image accurately and concisely", FALSE, ""))
    @@ ("creative_writer" :> Preset("Creative Writer", "Creative Writing Specialist",
                           "You are a creative writer with vivid imagination. Use descriptive language and engage in storytelling.",
                           "Describe this image with creative and poetic language", FALSE, ""))
    @@ ("code_helper" :> Preset("Code Helper", "Programming Assistant",
                           "You are a programming assistant. Help with coding questions, debug issues, and explain technical concepts.",
                           "Analyze this image for any technical or coding-related content",
                           FALSE, ""))
    @@ ("researcher" :> Preset("Researcher", "Research Assistant",
                           "You are a research-focused assistant for academic work. Provide detailed, analytical responses.",
                           "Provide a detailed, analytical description of this image",
                           FALSE, ""))

\* Two characters as api_edit_character leaves them (it always writes the
\* user_profile key, lines 892-898), one with an empty profile.
CustomCharacters ==
    ("pirate" :> Preset("Pirate", "Custom Character", "You are a pirate.",
                        "Describe this image", TRUE, "the captain"))
    @@ ("poet" :> Preset("Poet", "Custom Character", "You are a poet.",
                         "Describe this image", TRUE, ""))

NoFile == [exists |-> FALSE, data |-> <<>>]
FileOf(data) == [exists |-> TRUE, data |-> data]

\* characters.json as the server may find it when it starts.
InitialFiles == {NoFile, FileOf(DefaultCharacters @@ CustomCharacters)}

\* load_characters, lines 433-466: the file after the call, and the mapping read.
FileAfterLoad(file) == IF file.exists THEN file ELSE FileOf(DefaultCharacters)
LoadCharacters(file) == FileAfterLoad(file).data

\* ---------------------------------------------------------------- models

\* chat_models, caption_models as get_available_models leaves them at startup
\* (lines 163-165); the selected ones are the first of each list.
ChatModels == <<"llama3.2:3b", "phi3:mini">>
CaptionModels == <<"llava:7b", "llava:13b">>
selected_chat_model == ChatModels[1]
selected_image_model == CaptionModels[1]

\* ------------------------------------------------------------ transcripts

\* One message of self.messages; turn (history) is the request that appended
\* it, 0 for the system message.
Message(role, content, turn) == [role |-> role, content |-> content, turn |-> turn]

ProfileClause == "\nImportant: The user should be treated as follows: "

\* set_character testing the profile itself instead of the key.
PersonaMessageIfProfile(char_data) ==
    Message("system",
            IF char_data.user_profile # ""
            THEN <<char_data.system_prompt, ProfileClause, char_data.user_profile>>
            ELSE <<char_data.system_prompt>>,
            0)

\* set_character, lines 479-484.
PersonaMessage(char_data) ==
    Message("system",
            IF char_data.has_user_profile
            THEN <<char_data.system_prompt, ProfileClause, char_data.user_profile>>
            ELSE <<char_data.system_prompt>>,
            0)

\* reset_conversation, lines 537-541.
ResetMessages(current_character) ==
    IF current_character # NoCharacter
    THEN <<Message("system", <<current_character.system_prompt>>, 0)>>
    ELSE <<>>

\* str.strip() on a message given as a sequence of tokens.
IsSpace(tok) == tok \in {" ", "\n", "\t"}

RECURSIVE LStrip(_)
LStrip(toks) ==
    IF toks # <<>> /\ IsSpace(Head(toks)) THEN LStrip(Tail(toks)) ELSE toks

RECURSIVE RStrip(_)
RStrip(toks) ==
    IF toks # <<>> /\ IsSpace(toks[Len(toks)])
    THEN RStrip(SubSeq(toks, 1, Len(toks) - 1))
    ELSE toks

Strip(toks) == RStrip(LStrip(toks))

\* str.strip("*")
RECURSIVE LStripStar(_)
LStripStar(toks) ==
    IF toks # <<>> /\ Head(toks) = "*" THEN LStripStar(Tail(toks)) ELSE toks

RECURSIVE RStripStar(_)
RStripStar(toks) ==
    IF toks # <<>> /\ toks[Len(toks)] = "*"
    THEN RStripStar(SubSeq(toks, 1, Len(toks) - 1))
    ELSE toks

\* re.match(r"^\*.*\*$", user_input.strip()): '.' does not match a newline,
\* '$' also matches before one trailing newline (which strip() has removed).
IsAction(user_input) ==
    LET t == Strip(user_input) IN
    /\ Len(t) >= 2
    /\ t[1] = "*"
    /\ t[Len(t)] = "*"
    /\ \A i \in 1..Len(t) : t[i] # "\n"

\* ask, lines 501-505.
Formatted(user_input) ==
    IF IsAction(user_input)
    THEN <<"(The user performs an action: ">> \o RStripStar(LStripStar(user_input)) \o <<")">>
    ELSE user_input

\* process_image, line 492.
CaptionTurn(caption) == <<"user shows you this image: '", caption, "'.">>

\* The messages clients send.
Inputs == {<<"hello">>, <<>>, <<" ">>}

\* ------------------------------------------------------ CharacterChat objects

NoObj == 0
\* The CharacterChat of a client that fetched its initial data and is idle.
IdleClientObj == -1
ObjIds == 1..MaxObjs

\* CharacterChat.__init__, lines 425-431.
\* current_key (history) is the key of the character selected last; aliased
\* tells that current_character still is the very dict characters[current_key],
\* which it is from set_character until the next load_characters.
NewChat(characters) ==
    [characters |-> characters, messages |-> <<>>, current_character |-> NoCharacter,
     current_key |-> "", aliased |-> FALSE,
     selected_chat_model |-> selected_chat_model,
     selected_image_model |-> selected_image_model]

\* ------------------------------------------------------------ chat_sessions

Entry(sid, obj) == [sid |-> sid, obj |-> obj]

InTable(sid) == \E i \in 1..Len(chat_sessions) : chat_sessions[i].sid = sid

ObjOf(sid) ==
    chat_sessions[CHOOSE i \in 1..Len(chat_sessions) : chat_sessions[i].sid = sid].obj

\* chat_sessions[sid] = obj: an existing key keeps its place in the order.
Store(table, sid, obj) ==
    IF \E i \in 1..Len(table) : table[i].sid = sid
    THEN [i \in 1..Len(table) |->
             IF table[i].sid = sid THEN Entry(sid, obj) ELSE table[i]]
    ELSE Append(table, Entry(sid, obj))

\* The cleanup deleting the batch of the sessions inserted last.
CleanupNewestSessions(table) ==
    IF Len(table) > SessionLimit
    THEN SubSeq(table, 1, Len(table) - EvictBatch)
    ELSE table

\* cleanup_old_sessions, lines 560-567.
CleanupOldSessions(table) ==
    IF Len(table) > SessionLimit
    THEN SubSeq(table, EvictBatch + 1, Len(table))
    ELSE table

\* The other clients of the server: each has fetched its initial data once.
IdleClients(n) == [i \in 1..n |-> Entry(NumClients + i, IdleClientObj)]

\* ---------------------------------------------------------------- requests

ReqIds == 1..MaxReqs

IdleReq ==
    [op |-> "", sid |-> 0, pc |-> "idle", chat |-> NoObj, arg |-> <<>>,
     char_data |-> NoCharacter, result |-> ""]

\* An object is alive while the table or the local variable of a request
\* refers to it.
Reachable(o, table, rq) ==
    \/ \E i \in 1..Len(table) : table[i].obj = o
    \/ \E r \in ReqIds : rq[r].chat = o

\* The heap after the objects nothing refers to were freed.
Collected(heap, table, rq) ==
    [o \in ObjIds |-> IF Reachable(o, table, rq) THEN heap[o] ELSE NewChat(<<>>)]

FreeObjs == {o \in ObjIds : ~Reachable(o, chat_sessions, reqs)}

IdleReqs == {r \in ReqIds : reqs[r].pc = "idle"}

Done(r, result) == [reqs EXCEPT ![r].pc = "done", ![r].result = result]

\* A worker thread takes a request of session sid.
Begin(sid, op, arg) ==
    /\ IdleReqs # {}
    /\ reqs' = [reqs EXCEPT ![Lowest(IdleReqs)] =
                   [IdleReq EXCEPT !.op = op, !.sid = sid, !.pc = "get", !.arg = arg]]
    /\ UNCHANGED <<chat_sessions, objs, character_file>>
    /\ UNCHANGED <<dlvars, scriptvars>>

\* get_chat_session, line 554: the membership test.
GetCheck(r) ==
    /\ reqs[r].pc = "get"
    /\ reqs' = [reqs EXCEPT ![r].pc = IF InTable(reqs[r].sid) THEN "lookup" ELSE "create"]
    /\ UNCHANGED <<chat_sessions, objs, character_file>>
    /\ UNCHANGED <<dlvars, scriptvars>>

\* get_chat_session, line 555: chat_sessions[session_id] = CharacterChat().
GetCreate(r) ==
    /\ reqs[r].pc = "create"
    /\ FreeObjs # {}
    /\ reqs' = [reqs EXCEPT ![r].pc = "lookup"]
    /\ LET o == Lowest(FreeObjs) IN
       /\ chat_sessions' = Store(chat_sessions, reqs[r].sid, o)
       /\ objs' = Collected([objs EXCEPT ![o] = NewChat(LoadCharacters(character_file))],
                            chat_sessions', reqs')
    /\ character_file' = FileAfterLoad(character_file)
    /\ UNCHANGED <<dlvars, scriptvars>>

\* get_chat_session, line 558: return chat_sessions[session_id].
GetLookup(r) ==
    /\ reqs[r].pc = "lookup"
    /\ reqs' = IF InTable(reqs[r].sid)
               THEN [reqs EXCEPT ![r].pc = "body", ![r].chat = ObjOf(reqs[r].sid)]
               ELSE Done(r, "KeyError")
    /\ UNCHANGED <<chat_sessions, objs, character_file>>
    /\ UNCHANGED <<dlvars, scriptvars>>

\* get_initial_data, lines 623-636.
GetInitialData(r) ==
    /\ reqs[r].pc = "body"
    /\ reqs[r].op = "get_initial_data"
    /\ reqs' = Done(r, "ok")
    /\ UNCHANGED <<chat_sessions, objs, character_file>>
    /\ UNCHANGED <<dlvars, scriptvars>>

\* send_message without its test of chat.current_character.
SendMessageUnchecked(r) ==
    /\ reqs[r].pc = "body"
    /\ reqs[r].op = "send_message"
    /\ LET chat == reqs[r].chat
           message == Strip(reqs[r].arg)
       IN  IF message = <<>>
           THEN /\ reqs' = Done(r, "Message cannot be empty")
                /\ UNCHANGED objs
           ELSE /\ Len(objs[chat].messages) < MaxMsgs
                /\ objs' = [objs EXCEPT ![chat].messages =
                               Append(@, Message("user", Formatted(message), r))]
                /\ reqs' = [reqs EXCEPT ![r].pc = "rpc"]
    /\ UNCHANGED <<chat_sessions, character_file>>
    /\ UNCHANGED <<dlvars, scriptvars>>

\* send_message, lines 658-664, and ask, lines 501-508: the user turn is
\* appended and the chat RPC is sent.
SendMessage(r) ==
    /\ reqs[r].pc = "body"
    /\ reqs[r].op = "send_message"
    /\ LET chat == reqs[r].chat
           message == Strip(reqs[r].arg)
       IN  IF message = <<>>
           THEN /\ reqs' = Done(r, "Message cannot be empty")
                /\ UNCHANGED objs
           ELSE IF objs[chat].current_character = NoCharacter
           THEN /\ reqs' = Done(r, "No character selected")
                /\ UNCHANGED objs
           ELSE /\ Len(objs[chat].messages) < MaxMsgs
                /\ objs' = [objs EXCEPT ![chat].messages =
                               Append(@, Message("user", Formatted(message), r))]
                /\ reqs' = [reqs EXCEPT ![r].pc = "rpc"]
    /\ UNCHANGED <<chat_sessions, character_file>>
    /\ UNCHANGED <<dlvars, scriptvars>>

\* ask, lines 508-510, and process_image, lines 493-495: ollama.chat returns
\* and the reply is appended.
ChatReply(r) ==
    /\ reqs[r].pc = "rpc"
    /\ Len(objs[reqs[r].chat].messages) < MaxMsgs
    /\ objs' = [objs EXCEPT ![reqs[r].chat].messages =
                   Append(@, Message("assistant", <<"reply">>, r))]
    /\ reqs' = IF reqs[r].op = "send_message"
               THEN [reqs EXCEPT ![r].pc = "cleanup"]
               ELSE Done(r, "ok")
    /\ UNCHANGED <<chat_sessions, character_file>>
    /\ UNCHANGED <<dlvars, scriptvars>>

\* A failed ask that takes its user turn back.
ChatFailRollback(r) ==
    /\ reqs[r].pc = "rpc"
    /\ reqs' = Done(r, "upstream failure")
    /\ objs' = [objs EXCEPT ![reqs[r].chat].messages = SubSeq(@, 1, Len(@) - 1)]
    /\ UNCHANGED <<chat_sessions, character_file>>
    /\ UNCHANGED <<dlvars, scriptvars>>

\* ollama.chat raises: send_message, lines 674-678; upload_image, lines 818-824.
ChatFail(r) ==
    /\ reqs[r].pc = "rpc"
    /\ reqs' = Done(r, "upstream failure")
    /\ UNCHANGED <<chat_sessions, objs, character_file>>
    /\ UNCHANGED <<dlvars, scriptvars>>

\* send_message, lines 668-673.
Cleanup(r) ==
    /\ reqs[r].pc = "cleanup"
    /\ chat_sessions' = CleanupOldSessions(chat_sessions)
    /\ reqs' = Done(r, "ok")
    /\ objs' = Collected(objs, chat_sessions', reqs')
    /\ UNCHANGED character_file
    /\ UNCHANGED <<dlvars, scriptvars>>

\* select_chat_model assigning the module's selected_chat_model, which every
\* session would read.
SelectChatModelGlobal(r) ==
    /\ reqs[r].pc = "body"
    /\ reqs[r].op = "select_chat_model"
    /\ IF \E i \in 1..Len(ChatModels) : ChatModels[i] = reqs[r].arg[1]
       THEN /\ objs' = [o \in ObjIds |->
                           [objs[o] EXCEPT !.selected_chat_model = reqs[r].arg[1]]]
            /\ reqs' = Done(r, "ok")
       ELSE /\ reqs' = Done(r, "Model not available")
            /\ UNCHANGED objs
    /\ UNCHANGED <<chat_sessions, character_file>>
    /\ UNCHANGED <<dlvars, scriptvars>>

\* select_chat_model, lines 683-691.
SelectChatModel(r) ==
    /\ reqs[r].pc = "body"
    /\ reqs[r].op = "select_chat_model"
    /\ IF \E i \in 1..Len(ChatModels) : ChatModels[i] = reqs[r].arg[1]
       THEN /\ objs' = [objs EXCEPT ![reqs[r].chat].selected_chat_model = reqs[r].arg[1]]
            /\ reqs' = Done(r, "ok")
       ELSE /\ reqs' = Done(r, "Model not available")
            /\ UNCHANGED objs
    /\ UNCHANGED <<chat_sessions, character_file>>
    /\ UNCHANGED <<dlvars, scriptvars>>

\* select_image_model, lines 696-704.
SelectImageModel(r) ==
    /\ reqs[r].pc = "body"
    /\ reqs[r].op = "select_image_model"
    /\ IF \E i \in 1..Len(CaptionModels) : CaptionModels[i] = reqs[r].arg[1]
       THEN /\ objs' = [objs EXCEPT ![reqs[r].chat].selected_image_model = reqs[r].arg[1]]
            /\ reqs' = Done(r, "ok")
       ELSE /\ reqs' = Done(r, "Model not available")
            /\ UNCHANGED objs
    /\ UNCHANGED <<chat_sessions, character_file>>
    /\ UNCHANGED <<dlvars, scriptvars>>

\* select_character, lines 713-717: the keys whose name is the one asked for.
KeysNamed(characters, name) ==
    {k \in DOMAIN characters : characters[k].name = name}

\* select_character deselecting the character when the name is unknown.
SelectCharacterOrNone(r) ==
    /\ reqs[r].pc = "body"
    /\ reqs[r].op = "select_character"
    /\ LET chat == reqs[r].chat
           keys == KeysNamed(objs[chat].characters, reqs[r].arg[1])
       IN  IF keys = {}
           THEN /\ reqs' = Done(r, "Character not found")
                /\ objs' = [objs EXCEPT ![chat].current_character = NoCharacter,
                                        ![chat].current_key = "",
                                        ![chat].aliased = FALSE]
           ELSE \E k \in keys :
                /\ objs' = [objs EXCEPT ![chat].current_character = objs[chat].characters[k],
                                        ![chat].current_key = k,
                                        ![chat].aliased = TRUE]
                /\ reqs' = [reqs EXCEPT ![r].pc = "set_messages",
                                        ![r].char_data = objs[chat].characters[k]]
    /\ UNCHANGED <<chat_sessions, character_file>>
    /\ UNCHANGED <<dlvars, scriptvars>>

\* select_character, lines 709-726, and set_character, lines 474-478.
SelectCharacter(r) ==
    /\ reqs[r].pc = "body"
    /\ reqs[r].op = "select_character"
    /\ LET chat == reqs[r].chat
           keys == KeysNamed(objs[chat].characters, reqs[r].arg[1])
       IN  IF keys = {}
           THEN /\ reqs' = Done(r, "Character not found")
                /\ UNCHANGED objs
           ELSE \E k \in keys :
                /\ objs' = [objs EXCEPT ![chat].current_character = objs[chat].characters[k],
                                        ![chat].current_key = k,
                                        ![chat].aliased = TRUE]
                /\ reqs' = [reqs EXCEPT ![r].pc = "set_messages",
                                        ![r].char_data = objs[chat].characters[k]]
    /\ UNCHANGED <<chat_sessions, character_file>>
    /\ UNCHANGED <<dlvars, scriptvars>>

\* set_character adding the persona message to the transcript it finds.
SetMessagesAppending(r) ==
    /\ reqs[r].pc = "set_messages"
    /\ objs' = [objs EXCEPT ![reqs[r].chat].messages =
                   SubSeq(@, 1, Min(Len(@), MaxMsgs - 1))
                       \o <<PersonaMessage(reqs[r].char_data)>>]
    /\ reqs' = Done(r, "ok")
    /\ UNCHANGED <<chat_sessions, character_file>>
    /\ UNCHANGED <<dlvars, scriptvars>>

\* set_character, lines 479-485.
SetMessages(r) ==
    /\ reqs[r].pc = "set_messages"
    /\ objs' = [objs EXCEPT ![reqs[r].chat].messages = <<PersonaMessage(reqs[r].char_data)>>]
    /\ reqs' = Done(r, "ok")
    /\ UNCHANGED <<chat_sessions, character_file>>
    /\ UNCHANGED <<dlvars, scriptvars>>

\* upload_image, lines 786-803, and process_image, lines 489-490: the file is
\* saved and the caption RPC is sent.  arg is the file part of the form: none,
\* or its filename.
UploadImage(r) ==
    /\ reqs[r].pc = "body"
    /\ reqs[r].op = "upload_image"
    /\ reqs' = IF reqs[r].arg = <<>>
               THEN Done(r, "No file uploaded")
               ELSE IF reqs[r].arg[1] = ""
               THEN Done(r, "No file selected")
               ELSE IF objs[reqs[r].chat].current_character = NoCharacter
               THEN Done(r, "No character selected or processing failed")
               ELSE [reqs EXCEPT ![r].pc = "caption"]
    /\ UNCHANGED <<chat_sessions, objs, character_file>>
    /\ UNCHANGED <<dlvars, scriptvars>>

\* process_image, lines 490-493: the caption comes back, the user turn that
\* quotes it is appended and the chat RPC is sent.
CaptionReply(r) ==
    /\ reqs[r].pc = "caption"
    /\ Len(objs[reqs[r].chat].messages) < MaxMsgs
    /\ objs' = [objs EXCEPT ![reqs[r].chat].messages =
                   Append(@, Message("user", CaptionTurn("caption"), r))]
    /\ reqs' = [reqs EXCEPT ![r].pc = "rpc"]
    /\ UNCHANGED <<chat_sessions, character_file>>
    /\ UNCHANGED <<dlvars, scriptvars>>

\* generate_caption raises (lines 171-172, or the RPC): upload_image, lines 818-824.
CaptionFail(r) ==
    /\ reqs[r].pc = "caption"
    /\ reqs' = Done(r, "caption failure")
    /\ UNCHANGED <<chat_sessions, objs, character_file>>
    /\ UNCHANGED <<dlvars, scriptvars>>

\* reset_chat, lines 831-833, and reset_conversation, lines 535-541.
ResetChat(r) ==
    /\ reqs[r].pc = "body"
    /\ reqs[r].op = "reset_chat"
    /\ objs' = [objs EXCEPT ![reqs[r].chat].messages =
                   ResetMessages(objs[reqs[r].chat].current_character)]
    /\ reqs' = Done(r, "ok")
    /\ UNCHANGED <<chat_sessions, character_file>>
    /\ UNCHANGED <<dlvars, scriptvars>>

\* The response is sent and the worker thread is free again.
Respond(r) ==
    /\ reqs[r].pc = "done"
    /\ reqs' = [reqs EXCEPT ![r] = IdleReq]
    /\ objs' = Collected(objs, chat_sessions, reqs')
    /\ UNCHANGED <<chat_sessions, character_file>>
    /\ UNCHANGED <<dlvars, scriptvars>>

\* ------------------------------------------------------ character registry

\* add_character, line 516: name.lower().replace(" ", "_").replace("-", "_"),
\* on the names clients submit.
KeyOf ==
    ("Bard" :> "bard") @@ ("Pirate" :> "pirate") @@ ("Poet" :> "poet")
    @@ ("Sea Dog" :> "sea_dog") @@ ("Sea-Dog" :> "sea_dog") @@ ("Ghost" :> "ghost")

\* f'You are {name}. Engage naturally in conversation.'
DefaultPrompt ==
    ("Bard" :> "You are Bard. Engage naturally in conversation.")
    @@ ("Pirate" :> "You are Pirate. Engage naturally in conversation.")
    @@ ("Poet" :> "You are Poet. Engage naturally in conversation.")
    @@ ("Sea Dog" :> "You are Sea Dog. Engage naturally in conversation.")
    @@ ("Sea-Dog" :> "You are Sea-Dog. Engage naturally in conversation.")
    @@ ("Ghost" :> "You are Ghost. Engage naturally in conversation.")

Or(value, default) == IF value = "" THEN default ELSE value

\* The form of create_character: <<key, name, role, system_prompt,
\* image_caption_prompt>>; api_edit_character adds user_profile; the form of
\* api_delete_character is <<key>>.  The values are given trimmed.
FormKey(arg) == arg[1]
FormName(arg) == arg[2]

\* create_character, lines 750-755, and api_edit_character, lines 892-898:
\* dict.update of an existing character.
Edited(preset, arg) ==
    [preset EXCEPT
        !.name = arg[2],
        !.role = Or(arg[3], "Custom Character"),
        !.system_prompt = Or(arg[4], DefaultPrompt[arg[2]]),
        !.image_caption_prompt = Or(arg[5], "Describe this image"),
        !.has_user_profile = IF Len(arg) = 6 THEN TRUE ELSE @,
        !.user_profile = IF Len(arg) = 6 THEN arg[6] ELSE @]

\* create_character, lines 759-763, and add_character, lines 521-526: the
\* description passed on is the system prompt, and it becomes the role too.
Added(arg) ==
    LET description == Or(arg[4], DefaultPrompt[arg[2]]) IN
    Preset(arg[2], description, description, Or(arg[5], "Describe this image"), FALSE, "")

\* load_characters on one object: new dicts, so current_character is no
\* longer the one in characters.
Reloaded(chat, file) ==
    [chat EXCEPT !.characters = LoadCharacters(file), !.aliased = FALSE]

\* for session_chat in chat_sessions.values(): session_chat.load_characters()
ReloadedAll(heap, table, file) ==
    [o \in ObjIds |->
        IF \E i \in 1..Len(table) : table[i].obj = o
        THEN Reloaded(heap[o], file)
        ELSE heap[o]]

\* The keys api_delete_character refuses, line 925.
ProtectedKeys == {"assistant", "creative_writer", "code_helper", "researcher"}

\* A worker thread takes a request whose handler tests its form before it
\* calls get_chat_session.
BeginApi(sid, op, arg) ==
    /\ IdleReqs # {}
    /\ reqs' = [reqs EXCEPT ![Lowest(IdleReqs)] =
                   [IdleReq EXCEPT !.op = op, !.sid = sid, !.pc = "validate", !.arg = arg]]
    /\ UNCHANGED <<chat_sessions, objs, character_file>>
    /\ UNCHANGED <<dlvars, scriptvars>>

\* api_delete_character without its list of default characters.
ValidateUnprotected(r) ==
    /\ reqs[r].pc = "validate"
    /\ reqs' = IF reqs[r].op = "api_edit_character"
               THEN IF FormKey(reqs[r].arg) = "" \/ FormName(reqs[r].arg) = ""
                    THEN Done(r, "Character key and name are required")
                    ELSE [reqs EXCEPT ![r].pc = "get"]
               ELSE IF FormKey(reqs[r].arg) = ""
                    THEN Done(r, "Character key is required")
                    ELSE [reqs EXCEPT ![r].pc = "get"]
    /\ UNCHANGED <<chat_sessions, objs, character_file>>
    /\ UNCHANGED <<dlvars, scriptvars>>

\* api_edit_character, lines 882-883; api_delete_character, lines 921-927.
Validate(r) ==
    /\ reqs[r].pc = "validate"
    /\ reqs' = IF reqs[r].op = "api_edit_character"
               THEN IF FormKey(reqs[r].arg) = "" \/ FormName(reqs[r].arg) = ""
                    THEN Done(r, "Character key and name are required")
                    ELSE [reqs EXCEPT ![r].pc = "get"]
               ELSE IF FormKey(reqs[r].arg) = ""
                    THEN Done(r, "Character key is required")
                    ELSE IF FormKey(reqs[r].arg) \in ProtectedKeys
                    THEN Done(r, "Cannot delete default characters")
                    ELSE [reqs EXCEPT ![r].pc = "get"]
    /\ UNCHANGED <<chat_sessions, objs, character_file>>
    /\ UNCHANGED <<dlvars, scriptvars>>

\* chat.load_characters() of api_get_characters (line 858), api_edit_character
\* (line 886) and api_delete_character (line 930).
LoadOwn(r) ==
    /\ reqs[r].pc = "body"
    /\ reqs[r].op \in {"api_get_characters", "api_edit_character", "api_delete_character"}
    /\ objs' = [objs EXCEPT ![reqs[r].chat] = Reloaded(@, character_file)]
    /\ character_file' = FileAfterLoad(character_file)
    /\ reqs' = IF reqs[r].op = "api_get_characters"
               THEN Done(r, "ok")
               ELSE [reqs EXCEPT ![r].pc = "update"]
    /\ UNCHANGED chat_sessions
    /\ UNCHANGED <<dlvars, scriptvars>>

\* api_edit_character, lines 888-898.
EditCharacter(r) ==
    /\ reqs[r].pc = "update"
    /\ reqs[r].op = "api_edit_character"
    /\ LET chat == reqs[r].chat
           key == FormKey(reqs[r].arg)
       IN  IF key \notin DOMAIN objs[chat].characters
           THEN /\ reqs' = Done(r, "Character not found")
                /\ UNCHANGED objs
           ELSE /\ objs' = [objs EXCEPT
                               ![chat].characters[key] = Edited(@, reqs[r].arg),
                               ![chat].current_character =
                                   IF objs[chat].aliased /\ objs[chat].current_key = key
                                   THEN Edited(@, reqs[r].arg) ELSE @]
                /\ reqs' = [reqs EXCEPT ![r].pc = "write"]
    /\ UNCHANGED <<chat_sessions, character_file>>
    /\ UNCHANGED <<dlvars, scriptvars>>

\* The character map without one key (del chat.characters[key]).
Without(characters, key) == [k \in DOMAIN characters \ {key} |-> characters[k]]

\* api_delete_character, lines 932-938.
DeleteCharacter(r) ==
    /\ reqs[r].pc = "update"
    /\ reqs[r].op = "api_delete_character"
    /\ LET chat == reqs[r].chat
           key == FormKey(reqs[r].arg)
       IN  IF key \notin DOMAIN objs[chat].characters
           THEN /\ reqs' = Done(r, "Character not found")
                /\ UNCHANGED objs
           ELSE /\ objs' = [objs EXCEPT ![chat].characters = Without(@, key)]
                /\ reqs' = [reqs EXCEPT ![r].pc = "write"]
    /\ UNCHANGED <<chat_sessions, character_file>>
    /\ UNCHANGED <<dlvars, scriptvars>>

\* create_character, lines 731-766, and add_character, lines 516-528: with a
\* key the character is updated in place and nothing is written; without one
\* it is added to this session's map, to be written next.
CreateCharacter(r) ==
    /\ reqs[r].pc = "body"
    /\ reqs[r].op = "create_character"
    /\ LET chat == reqs[r].chat
           arg == reqs[r].arg
           key == FormKey(arg)
       IN  IF FormName(arg) = ""
           THEN /\ reqs' = Done(r, "Character name is required")
                /\ UNCHANGED objs
           ELSE IF key # ""
           THEN IF key \notin DOMAIN objs[chat].characters
                THEN /\ reqs' = Done(r, "Character not found")
                     /\ UNCHANGED objs
                ELSE /\ objs' = [objs EXCEPT
                                    ![chat].characters[key] = Edited(@, arg),
                                    ![chat].current_character =
                                        IF objs[chat].aliased /\ objs[chat].current_key = key
                                        THEN Edited(@, arg) ELSE @]
                     /\ reqs' = [reqs EXCEPT ![r].pc = "reload"]
           ELSE IF KeyOf[FormName(arg)] \in DOMAIN objs[chat].characters
           THEN /\ reqs' = Done(r, "already exists")
                /\ UNCHANGED objs
           ELSE /\ objs' = [objs EXCEPT ![chat].characters =
                               @ @@ (KeyOf[FormName(arg)] :> Added(arg))]
                /\ reqs' = [reqs EXCEPT ![r].pc = "write"]
    /\ UNCHANGED <<chat_sessions, character_file>>
    /\ UNCHANGED <<dlvars, scriptvars>>

\* json.dump(chat.characters, f): add_character, lines 530-531;
\* api_edit_character, lines 901-902; api_delete_character, lines 940-941.
WriteFile(r) ==
    /\ reqs[r].pc = "write"
    /\ character_file' = FileOf(objs[reqs[r].chat].characters)
    /\ reqs' = [reqs EXCEPT ![r].pc = "reload"]
    /\ UNCHANGED <<chat_sessions, objs>>
    /\ UNCHANGED <<dlvars, scriptvars>>

\* The reload of every session: create_character, lines 768-770;
\* api_edit_character, lines 904-906; api_delete_character, lines 943-945.
ReloadAll(r) ==
    /\ reqs[r].pc = "reload"
    /\ objs' = ReloadedAll(objs, chat_sessions, character_file)
    /\ character_file' = FileAfterLoad(character_file)
    /\ reqs' = Done(r, "ok")
    /\ UNCHANGED chat_sessions
    /\ UNCHANGED <<dlvars, scriptvars>>

\* The steps of the handlers that read or write the character registry.
RegistrySteps ==
    \/ \E r \in ReqIds : Validate(r)
    \/ \E r \in ReqIds : LoadOwn(r)
    \/ \E r \in ReqIds : EditCharacter(r)
    \/ \E r \in ReqIds : DeleteCharacter(r)
    \/ \E r \in ReqIds : CreateCharacter(r)
    \/ \E r \in ReqIds : WriteFile(r)
    \/ \E r \in ReqIds : ReloadAll(r)

\* The forms clients submit.
CreateForms ==
    { <<"", "Bard", "Singer", "You are a bard.", "">>,
      <<"", "Pirate", "", "", "">>,
      <<"", "", "", "", "">>,
      <<"pirate", "Pirate", "Buccaneer", "You are a buccaneer.", "">>,
      <<"ghost", "Ghost", "", "", "">> }
EditForms ==
    { <<"pirate", "Pirate", "Corsair", "You are a corsair.", "", "the admiral">>,
      <<"ghost", "Ghost", "", "", "", "">>,
      <<"", "Pirate", "", "", "", "">> }
DeleteForms == {<<"poet">>, <<"assistant">>, <<"ghost">>, <<"">>}

\* A worker thread takes a request while no other request is being handled.
BeginAlone(sid, op, arg) ==
    /\ IdleReqs = ReqIds
    /\ Begin(sid, op, arg)

BeginApiAlone(sid, op, arg) ==
    /\ IdleReqs = ReqIds
    /\ BeginApi(sid, op, arg)

\* The client that sends chat requests, and what it asks for.
ChatClients == {1}
ModelArgs == {<<"phi3:mini">>, <<"llava:13b">>, <<"none">>}
CharacterArgs == {<<"Assistant">>, <<"Pirate">>, <<"Poet">>, <<"Nobody">>}
FileArgs == {<<>>, <<"">>, <<"cat.png">>}

\* get_chat_session and the response.
SessionSteps ==
    \/ \E r \in ReqIds : GetCheck(r)
    \/ \E r \in ReqIds : GetCreate(r)
    \/ \E r \in ReqIds : GetLookup(r)
    \/ \E r \in ReqIds : Respond(r)

\* The steps of the handlers that read or write a transcript.
TranscriptSteps ==
    \/ \E r \in ReqIds : SendMessage(r)
    \/ \E r \in ReqIds : ChatReply(r)
    \/ \E r \in ReqIds : ChatFail(r)
    \/ \E r \in ReqIds : Cleanup(r)
    \/ \E r \in ReqIds : SelectCharacter(r)
    \/ \E r \in ReqIds : SetMessages(r)
    \/ \E r \in ReqIds : UploadImage(r)
    \/ \E r \in ReqIds : CaptionReply(r)
    \/ \E r \in ReqIds : CaptionFail(r)
    \/ \E r \in ReqIds : ResetChat(r)

\* The steps of the handlers that read or write the model selection.
SelectionSteps ==
    \/ \E r \in ReqIds : GetInitialData(r)
    \/ \E r \in ReqIds : SelectChatModel(r)
    \/ \E r \in ReqIds : SelectImageModel(r)

\* A server that has just started and found this characters.json.
StartedWith(file) ==
    /\ chat_sessions = <<>>
    /\ objs = [o \in ObjIds |-> NewChat(<<>>)]
    /\ character_file = file
    /\ reqs = [r \in ReqIds |-> IdleReq]

FreshChat == StartedWith(NoFile)

ChatInit == \E file \in InitialFiles : StartedWith(file)

\* The CharacterChat of a client that chose a character and had one exchange.
UsedChat(characters, key) ==
    [NewChat(characters) EXCEPT
        !.current_character = characters[key],
        !.current_key = key,
        !.aliased = TRUE,
        !.messages = <<PersonaMessage(characters[key]),
                       Message("user", <<"hello">>, 1),
                       Message("assistant", <<"reply">>, 1)>>]

\* A server that has been running: client 2 came first, chose a character and
\* chatted; then came the idle clients.
BusyChat ==
    /\ chat_sessions = <<Entry(2, 1)>> \o IdleClients(SessionLimit - 1)
    /\ character_file = FileOf(DefaultCharacters @@ CustomCharacters)
    /\ objs = [o \in ObjIds |->
                  IF o = 1
                  THEN UsedChat(LoadCharacters(character_file), "pirate")
                  ELSE NewChat(<<>>)]
    /\ reqs = [r \in ReqIds |-> IdleReq]

\* Client 2 also downloaded a model, and the pull has ended.
BusyDownload ==
    /\ download_progress =
           [s \in ClientIds |->
               IF s = 2
               THEN Update(InitialRecord(ModelNames[1], 0), FinalUpdate(ModelNames[1], 0))
               ELSE NoJob]
    /\ download_threads = [s \in ClientIds |-> NoThread]
    /\ threads = [t \in TaskIds |-> FreeThread]
    /\ job_task = [s \in ClientIds |-> NoThread]
    /\ job_signal = [s \in ClientIds |-> s = 2]
    /\ now = 0
    /\ script = NoScript
    /\ observed = <<>>

\* ---------------------------------------------------------- specifications

\* One client's download requests and the threads they launch.
DownloadNext ==
    \/ \E s \in DownloadClients : StartEmpty(s)
    \/ \E s \in DownloadClients : StartConflict(s)
    \/ \E s \in DownloadClients : StartCheck(s)
    \/ \E s \in DownloadClients : Poll(s)
    \/ \E s \in DownloadClients : Cancel(s)
    \/ Tick
    \/ StartSteps
    \/ PullSteps

\* The download supervisor of a server that has just started.
DownloadSpecInit == DownloadInit /\ FreshChat

DownloadSpec == DownloadSpecInit /\ [][DownloadNext]_vars

\* Transcript requests of one client, handled concurrently.
ChatNext ==
    \/ \E s \in ChatClients : Begin(s, "send_message", <<"hello">>)
    \/ \E s \in ChatClients : Begin(s, "select_character", <<"Pirate">>)
    \/ \E s \in ChatClients : Begin(s, "upload_image", <<"cat.png">>)
    \/ \E s \in ChatClients : Begin(s, "reset_chat", <<>>)
    \/ SessionSteps
    \/ TranscriptSteps

ChatSpecInit ==
    DownloadInit /\ StartedWith(FileOf(DefaultCharacters @@ CustomCharacters))

ChatSpec == ChatSpecInit /\ [][ChatNext]_vars

\* Chat requests of one client, handled one after the other.
SequentialNext ==
    \/ \E s \in ChatClients : BeginAlone(s, "get_initial_data", <<>>)
    \/ \E s \in ChatClients, m \in Inputs : BeginAlone(s, "send_message", m)
    \/ \E s \in ChatClients, m \in ModelArgs : BeginAlone(s, "select_chat_model", m)
    \/ \E s \in ChatClients, m \in ModelArgs : BeginAlone(s, "select_image_model", m)
    \/ \E s \in ChatClients, c \in CharacterArgs : BeginAlone(s, "select_character", c)
    \/ \E s \in ChatClients, f \in FileArgs : BeginAlone(s, "upload_image", f)
    \/ \E s \in ChatClients : BeginAlone(s, "reset_chat", <<>>)
    \/ SessionSteps
    \/ TranscriptSteps
    \/ SelectionSteps

SequentialInit == DownloadInit /\ ChatInit

SequentialSpec == SequentialInit /\ [][SequentialNext]_vars

\* Client 1 has not downloaded anything yet.
NoDownloadYet ==
    /\ \A s \in DownloadClients : ~HasJob(s)
    /\ \A t \in TaskIds : threads[t] = FreeThread

\* Client 1 has not sent a chat request yet.
NoChatYet ==
    /\ \A s \in ChatClients : ~InTable(s)
    /\ \A r \in ReqIds : reqs[r] = IdleReq

\* Client 1 either chats, one request after the other, or downloads models.
IsolationNext ==
    \/ \E s \in ChatClients : NoDownloadYet /\ BeginAlone(s, "get_initial_data", <<>>)
    \/ \E s \in ChatClients, m \in Inputs :
          NoDownloadYet /\ BeginAlone(s, "send_message", m)
    \/ \E s \in ChatClients, m \in ModelArgs :
          NoDownloadYet /\ BeginAlone(s, "select_chat_model", m)
    \/ \E s \in ChatClients, m \in ModelArgs :
          NoDownloadYet /\ BeginAlone(s, "select_image_model", m)
    \/ \E s \in ChatClients, c \in CharacterArgs :
          NoDownloadYet /\ BeginAlone(s, "select_character", c)
    \/ \E s \in ChatClients, f \in FileArgs :
          NoDownloadYet /\ BeginAlone(s, "upload_image", f)
    \/ \E s \in ChatClients : NoDownloadYet /\ BeginAlone(s, "reset_chat", <<>>)
    \/ SessionSteps
    \/ TranscriptSteps
    \/ SelectionSteps
    \/ \E s \in DownloadClients : NoChatYet /\ StartEmpty(s)
    \/ \E s \in DownloadClients : NoChatYet /\ StartConflict(s)
    \/ \E s \in DownloadClients : NoChatYet /\ StartCheck(s)
    \/ \E s \in DownloadClients : NoChatYet /\ Poll(s)
    \/ \E s \in DownloadClients : NoChatYet /\ Cancel(s)
    \/ ~NoDownloadYet /\ Tick
    \/ StartSteps
    \/ PullSteps

\* Client 1 arrives at a server that has been running, where client 2 has a
\* conversation and a finished download.
IsolationInit == BusyDownload /\ BusyChat

IsolationSpec == IsolationInit /\ [][IsolationNext]_vars

\* The steps that set or restore the persona message.
PersonaSteps ==
    \/ \E r \in ReqIds : SelectCharacter(r)
    \/ \E r \in ReqIds : SetMessages(r)
    \/ \E r \in ReqIds : ResetChat(r)

\* Registry, character-selection and reset requests of the clients, handled
\* one after the other.
RegistryNext ==
    \/ \E s \in ClientIds : BeginAlone(s, "select_character", <<"Pirate">>)
    \/ \E s \in ClientIds : BeginAlone(s, "reset_chat", <<>>)
    \/ \E s \in ClientIds : BeginAlone(s, "api_get_characters", <<>>)
    \/ \E s \in ClientIds, f \in CreateForms : BeginAlone(s, "create_character", f)
    \/ \E s \in ClientIds, f \in EditForms : BeginApiAlone(s, "api_edit_character", f)
    \/ \E s \in ClientIds, f \in DeleteForms : BeginApiAlone(s, "api_delete_character", f)
    \/ SessionSteps
    \/ PersonaSteps
    \/ RegistrySteps

RegistryInit == DownloadInit /\ ChatInit

RegistrySpec == RegistryInit /\ [][RegistryNext]_vars

\* The forms of the requests that run concurrently: they name distinct keys.
RaceCreate == <<"", "Bard", "Singer", "You are a bard.", "">>
RaceEdit == <<"pirate", "Pirate", "Corsair", "You are a corsair.", "", "the admiral">>
RaceDelete == <<"poet">>

\* No other request of this session is being handled.
Alone(sid) == \A r \in ReqIds : reqs[r].sid # sid

\* Registry requests of two clients, handled concurrently, one request of
\* each client at a time.
RegistryRaceNext ==
    \/ Alone(1) /\ Begin(1, "create_character", RaceCreate)
    \/ Alone(1) /\ BeginApi(1, "api_edit_character", RaceEdit)
    \/ Alone(2) /\ BeginApi(2, "api_delete_character", RaceDelete)
    \/ SessionSteps
    \/ RegistrySteps

RegistryRaceInit ==
    DownloadInit /\ StartedWith(FileOf(DefaultCharacters @@ CustomCharacters))

RegistryRaceSpec == RegistryRaceInit /\ [][RegistryRaceNext]_vars

\* A server that has been running: client 2 came first, chose a character and
\* chatted; then n clients came that only fetched their initial data.
Crowded(n) ==
    /\ chat_sessions = <<Entry(2, 1)>> \o IdleClients(n)
    /\ character_file = FileOf(DefaultCharacters @@ CustomCharacters)
    /\ objs = [o \in ObjIds |->
                  IF o = 1
                  THEN UsedChat(LoadCharacters(character_file), "pirate")
                  ELSE NewChat(<<>>)]
    /\ reqs = [r \in ReqIds |-> IdleReq]

\* Requests of two clients, handled concurrently, one request of each client
\* at a time, on a server whose session table is at the eviction threshold.
EvictionNext ==
    \/ Alone(1) /\ Begin(1, "get_initial_data", <<>>)
    \/ Alone(1) /\ Begin(1, "select_character", <<"Pirate">>)
    \/ \E s \in ClientIds : Alone(s) /\ Begin(s, "send_message", <<"hello">>)
    \/ SessionSteps
    \/ \E r \in ReqIds : GetInitialData(r)
    \/ \E r \in ReqIds : SelectCharacter(r)
    \/ \E r \in ReqIds : SetMessages(r)
    \/ \E r \in ReqIds : SendMessage(r)
    \/ \E r \in ReqIds : ChatReply(r)
    \/ \E r \in ReqIds : Cleanup(r)

EvictionInit ==
    DownloadInit /\ \E n \in {SessionLimit - 1, SessionLimit} : Crowded(n)

EvictionSpec == EvictionInit /\ [][EvictionNext]_vars

\* The CharacterChat of a client that chose a character and has not chatted
\* since (set_character, lines 477-484).
ChosenChat(characters, key) ==
    [UsedChat(characters, key) EXCEPT !.messages = <<PersonaMessage(characters[key])>>]

\* A server that has been running: client 2 came first and chose a character;
\* then n clients came that only fetched their initial data.
Returning(n) ==
    /\ chat_sessions = <<Entry(2, 1)>> \o IdleClients(n)
    /\ character_file = FileOf(DefaultCharacters @@ CustomCharacters)
    /\ objs = [o \in ObjIds |->
                  IF o = 1
                  THEN ChosenChat(LoadCharacters(character_file), "pirate")
                  ELSE NewChat(<<>>)]
    /\ reqs = [r \in ReqIds |-> IdleReq]

ReturningInit ==
    DownloadInit /\ \E n \in {SessionLimit - 1, SessionLimit} : Returning(n)

\* The same requests when the oldest session of the table is one that can
\* still chat.
ReturningSpec == ReturningInit /\ [][EvictionNext]_vars

\* One client's download requests with method 'api' and the threads they
\* launch.
ApiNext ==
    \/ \E s \in DownloadClients : StartEmpty(s)
    \/ \E s \in DownloadClients : StartConflict(s)
    \/ \E s \in DownloadClients : StartCheck(s)
    \/ \E s \in DownloadClients : Poll(s)
    \/ \E s \in DownloadClients : Cancel(s)
    \/ Tick
    \/ \E t \in TaskIds : StartToolMissing(t)
    \/ \E t \in TaskIds : StartLaunchApi(t)
    \/ \E t \in TaskIds : StartTrack(t)
    \/ ApiSteps

ApiSpecInit == DownloadInit /\ FreshChat

ApiSpec == ApiSpecInit /\ [][ApiNext]_vars

\* The model names a client asks for: up to MaxName pieces, each a run of
\* letters, digits, '.', '_', ':' and '-', a blank or a slash.
NameArgs == SeqsUpTo({"llama3.2:3b", " ", "/"}, MaxName)

\* The string that the pieces of a name make.
RECURSIVE Joined(_)
Joined(toks) == IF toks = <<>> THEN "" ELSE Head(toks) \o Joined(Tail(toks))

\* download_model, lines 1093-1106, for a given model name: the name is
\* trimmed; an empty name and a live download are refused; the test of the
\* name's characters is commented out (lines 1105-1106).
StartNamed(s, name) ==
    /\ IF Strip(name) = <<>> \/ AlreadyDownloading(s)
       THEN UNCHANGED threads
       ELSE /\ FreeSlots # {}
            /\ threads' = [threads EXCEPT ![Lowest(FreeSlots)] =
                              [FreeThread EXCEPT !.sid = s, !.model = Joined(Strip(name)),
                                                 !.req = "checked"]]
    /\ UNCHANGED <<download_progress, download_threads, job_task, job_signal, now>>
    /\ UNCHANGED <<chatvars, scriptvars>>

\* One client's download requests for names of its choice, on a server where
\* the ollama command is missing when the thread looks for it.
NameNext ==
    \/ \E s \in DownloadClients, name \in NameArgs : StartNamed(s, name)
    \/ \E t \in TaskIds : StartToolMissing(t)
    \/ \E t \in TaskIds : StartLaunch(t)
    \/ \E t \in TaskIds : StartTrack(t)
    \/ \E t \in TaskIds : PullInit(t)
    \/ \E t \in TaskIds : PullUnavailable(t)
    \/ \E t \in TaskIds : PullFinally(t)

NameSpecInit == DownloadInit /\ FreshChat

NameSpec == NameSpecInit /\ [][NameNext]_vars

\* A worker thread takes a get_download_progress request of session sid.
PollBegin(sid) ==
    /\ IdleReqs # {}
    /\ reqs' = [reqs EXCEPT ![Lowest(IdleReqs)] =
                   [IdleReq EXCEPT !.op = "get_download_progress", !.sid = sid, !.pc = "read"]]
    /\ UNCHANGED <<chat_sessions, objs, character_file>>
    /\ UNCHANGED <<dlvars, scriptvars>>

\* get_download_progress, lines 1157-1162: the record is copied and the copy
\* is tested; lines 1165-1173 when nothing is to be discarded.
PollRead(r) ==
    /\ reqs[r].pc = "read"
    /\ LET rec == download_progress[reqs[r].sid] IN
       reqs' = IF HasJob(reqs[r].sid) /\ Terminal(rec.status)
                  /\ now - rec.started_at > GraceWindow
               THEN [reqs EXCEPT ![r].pc = "delete"]
               ELSE Done(r, rec.status)
    /\ UNCHANGED <<chat_sessions, objs, character_file>>
    /\ UNCHANGED <<dlvars, scriptvars>>

\* get_download_progress, line 1163: del download_progress[session_id], of
\* whatever record the key holds by now.
PollDelete(r) ==
    /\ reqs[r].pc = "delete"
    /\ LET s == reqs[r].sid IN
       IF HasJob(s)
       THEN /\ download_progress' = [download_progress EXCEPT ![s] = NoJob]
            /\ job_task' = [job_task EXCEPT ![s] = NoThread]
            /\ job_signal' = [job_signal EXCEPT ![s] = FALSE]
            /\ reqs' = Done(r, "discarded")
       ELSE /\ reqs' = Done(r, "KeyError")
            /\ UNCHANGED <<download_progress, job_task, job_signal>>
    /\ UNCHANGED <<download_threads, threads, now>>
    /\ UNCHANGED <<chat_sessions, objs, character_file, scriptvars>>

\* One client's download and poll requests, handled concurrently, on a server
\* where the ollama command is missing when the thread looks for it.
PollNext ==
    \/ \E s \in DownloadClients : StartCheck(s)
    \/ \E s \in DownloadClients : PollBegin(s)
    \/ Tick
    \/ \E t \in TaskIds : StartLaunch(t)
    \/ \E t \in TaskIds : StartTrack(t)
    \/ \E t \in TaskIds : PullInit(t)
    \/ \E t \in TaskIds : PullUnavailable(t)
    \/ \E t \in TaskIds : PullFinally(t)
    \/ \E r \in ReqIds : PollRead(r)
    \/ \E r \in ReqIds : PollDelete(r)
    \/ \E r \in ReqIds : Respond(r)

PollSpecInit == DownloadInit /\ FreshChat

PollSpec == PollSpecInit /\ [][PollNext]_vars

\* Some download request of the session has returned success.
StartReturned(s) == \E t \in TaskIds : threads[t].sid = s /\ threads[t].req = "done"

\* One client starts one download, cancels it after the start has returned,
\* and polls.
CancelNext ==
    \/ \E s \in DownloadClients : NoDownloadYet /\ StartCheck(s)
    \/ \E s \in DownloadClients : StartReturned(s) /\ Cancel(s)
    \/ \E s \in DownloadClients : Poll(s)
    \/ Tick
    \/ \E t \in TaskIds : StartLaunch(t)
    \/ \E t \in TaskIds : StartTrack(t)
    \/ \E t \in TaskIds : PullInit(t)
    \/ \E t \in TaskIds : PullConnect(t)
    \/ \E t \in TaskIds, line \in PullLines : PullLine(t, line)
    \/ \E t \in TaskIds, rc \in ExitCodes : PullEOF(t, rc)
    \/ \E t \in TaskIds : PullFinal(t)
    \/ \E t \in TaskIds : PullExcept(t)
    \/ \E t \in TaskIds : PullFinally(t)

CancelSpecInit == DownloadInit /\ FreshChat

CancelSpec == CancelSpecInit /\ [][CancelNext]_vars

\* No download_model request is between its guard (line 1101) and its return.
NoStartPending == \A t \in TaskIds : threads[t].req \in {"idle", "done"}

\* One client starts downloads and cancels them, one request after the other;
\* the threads run on between the requests.
RestartNext ==
    \/ \E s \in DownloadClients : NoStartPending /\ StartCheck(s)
    \/ \E s \in DownloadClients : NoStartPending /\ Cancel(s)
    \/ \E t \in TaskIds : StartLaunch(t)
    \/ \E t \in TaskIds : StartTrack(t)
    \/ \E t \in TaskIds : PullInit(t)
    \/ \E t \in TaskIds : PullConnect(t)
    \/ \E t \in TaskIds, line \in PullLines : PullLine(t, line)
    \/ \E t \in TaskIds, rc \in ExitCodes : PullEOF(t, rc)
    \/ \E t \in TaskIds : PullFinal(t)
    \/ \E t \in TaskIds : PullExcept(t)
    \/ \E t \in TaskIds : PullFinally(t)

RestartSpecInit == DownloadInit /\ FreshChat

RestartSpec == RestartSpecInit /\ [][RestartNext]_vars

\* Client 1 has started a download of the first model; its thread has
\* started the process (line 246) and is about to read the scripted output.
ScriptedFrom(scripts) ==
    /\ download_progress =
           [s \in ClientIds |->
               IF s = 1
               THEN Update(InitialRecord(ModelOf(1), 0),
                           [progress |-> 5,
                            message |-> Msg("Connecting to download", ModelOf(1), 0, 0)])
               ELSE NoJob]
    /\ download_threads = [s \in ClientIds |-> IF s = 1 THEN 1 ELSE NoThread]
    /\ threads = [t \in TaskIds |->
                     IF t = 1
                     THEN [sid |-> 1, model |-> ModelOf(1), req |-> "done",
                           pc |-> "loop", rc |-> RcNone]
                     ELSE FreeThread]
    /\ job_task = [s \in ClientIds |-> IF s = 1 THEN 1 ELSE NoThread]
    /\ job_signal = [s \in ClientIds |-> FALSE]
    /\ now = 0
    /\ script \in scripts
    /\ observed = <<>>

Scripted == ScriptedFrom(Scripts)

\* One download thread fed a scripted output.
ScriptNext ==
    \/ \E t \in TaskIds : FeedLine(t)
    \/ \E t \in TaskIds : FeedExit(t)
    \/ \E t \in TaskIds : FeedFinal(t)
    \/ \E t \in TaskIds : PullFinally(t)

ScriptInit == Scripted /\ FreshChat

ScriptSpec == ScriptInit /\ [][ScriptNext]_vars

\* The phase keywords the parser looks for in line.lower() (lines 288-302).
Keywords == {"pulling manifest", "pulling", "config", "verifying", "success", "complete"}

\* Every output line by what the parser reads in it: with or without a byte
\* count, a percentage and each keyword. A line that holds "pulling manifest"
\* or a byte count holds "pulling".
AnyLines ==
    { Line("any", size, pct, kw) :
        size \in {<<>>, <<500, 1000>>, <<0, 0>>},
        pct \in {<<>>, <<45>>, <<100>>},
        kw \in {k \in SUBSET Keywords : "pulling manifest" \in k => "pulling" \in k} }

ParseScripts ==
    { [lines |-> <<line>>, rc |-> rc, next |-> 1] :
        line \in {l \in AnyLines : l.size # <<>> => "pulling" \in l.kw},
        rc \in ExitCodes }

ParseInit == ScriptedFrom(ParseScripts) /\ FreshChat

\* One download thread fed one line of any kind, then the exit.
ParseSpec == ParseInit /\ [][ScriptNext]_vars

\* The messages of the client that asks: up to MaxInput pieces, each an
\* asterisk, a white space character or a text without either.
AskInputs == SeqsUpTo({"*", "waves hello", "\n", " "}, MaxInput)

\* Client 2, who has chosen a character and chatted, sends a message, and the
\* chat RPC fails.
AskNext ==
    \/ \E m \in AskInputs : BeginAlone(2, "send_message", m)
    \/ \E r \in ReqIds : GetCheck(r)
    \/ \E r \in ReqIds : GetLookup(r)
    \/ \E r \in ReqIds : SendMessage(r)
    \/ \E r \in ReqIds : ChatFail(r)
    \/ \E r \in ReqIds : Respond(r)

AskInit == DownloadInit /\ Crowded(0)

AskSpec == AskInit /\ [][AskNext]_vars

\* ------------------------------------------------------- download claims

RunningTasks(s) == {t \in TaskIds : threads[t].sid = s /\ IsAlive(t)}

\* The job of session s is live: its record says downloading and the thread
\* that created the record is still running.
LiveJob(s) ==
    /\ HasJob(s)
    /\ download_progress[s].status = "downloading"
    /\ job_task[s] # NoThread
    /\ IsAlive(job_task[s])

\* A download_model request of session s gets past the guard of line 1101.
StartAccepted(s) ==
    \E t \in TaskIds :
        /\ threads'[t].req = "checked"
        /\ threads'[t].sid = s
        /\ threads[t].req # "checked"

\* The record of session s belongs to the same job before and after the step.
SameJob(s) ==
    /\ HasJob(s)
    /\ HasJob(s)'
    /\ job_task'[s] = job_task[s]
    /\ download_progress'[s].started_at = download_progress[s].started_at

\* C1: in every reachable state a session has at most one running download
\* thread (a start issued while one is running launches nothing).
C1_AtMostOneRunningTask ==
    \A s \in ClientIds : Cardinality(RunningTasks(s)) <= 1

\* C2: a start on a session that has a live download job is rejected: no
\* download_model request of that session gets past the guard, so the job's
\* record and tracking entry stay as they were.
C2_StartOnLiveJobRejected ==
    [][\A s \in ClientIds : LiveJob(s) => ~StartAccepted(s)]_vars

\* C3: while a job is downloading, no step lowers its progress.
C3_ProgressNeverDecreases ==
    [][\A s \in ClientIds :
          (SameJob(s) /\ download_progress[s].status = "downloading"
                      /\ download_progress'[s].status = "downloading")
          => download_progress'[s].progress >= download_progress[s].progress]_vars

\* C4: a job's status is completed only after the thread of that job has
\* read a success line or an exit code 0.
C4_CompletedOnlyAfterSignal ==
    \A s \in ClientIds :
        (HasJob(s) /\ download_progress[s].status = "completed") => job_signal[s]

\* C5: once a job's status is completed or error, no step changes its
\* status, progress or message; the record can only be discarded.
C5_TerminalAbsorbing ==
    [][\A s \in ClientIds :
          (SameJob(s) /\ Terminal(download_progress[s].status))
          => download_progress'[s] = download_progress[s]]_vars

\* ------------------------------------------------------------ chat claims

\* C6: every request that obtained the conversation state of a session holds
\* the object the session table stores for that session: one object per
\* session identifier.
C6_OneObjectPerSession ==
    \A r \in ReqIds :
        (reqs[r].chat # NoObj /\ InTable(reqs[r].sid))
            => reqs[r].chat = ObjOf(reqs[r].sid)

\* A reply appended directly after the user turn of its own request.
FollowsOwnTurn(messages, i) ==
    /\ i > 1
    /\ messages[i - 1].role = "user"
    /\ messages[i - 1].turn = messages[i].turn

\* C7: in every transcript each assistant reply stands directly after the
\* user turn of the request that produced it, as it does whenever the
\* requests of a session run one after the other.
C7_ReplyFollowsOwnTurn ==
    \A o \in ObjIds : \A i \in 1..Len(objs[o].messages) :
        objs[o].messages[i].role = "assistant" => FollowsOwnTurn(objs[o].messages, i)

\* What a session would find as its conversation state.
NoSession == [present |-> FALSE]

SessionState(table, heap, s) ==
    IF \E i \in 1..Len(table) : table[i].sid = s
    THEN LET chat == heap[table[CHOOSE i \in 1..Len(table) : table[i].sid = s].obj]
         IN  [present |-> TRUE, messages |-> chat.messages,
              current_character |-> chat.current_character,
              selected_chat_model |-> chat.selected_chat_model,
              selected_image_model |-> chat.selected_image_model]
    ELSE NoSession

\* The session that is watched while client 1 acts.
Other == Lowest(ClientIds \ ChatClients)

OtherUntouched ==
    /\ SessionState(chat_sessions', objs', Other) = SessionState(chat_sessions, objs, Other)
    /\ download_progress'[Other] = download_progress[Other]

\* The step is the cleanup after a successful chat turn, the table holds more
\* than SessionLimit sessions and the other session is among the EvictBatch
\* oldest.
OtherEvicted ==
    /\ \E r \in ReqIds :
          /\ reqs[r].op = "send_message"
          /\ reqs[r].pc = "cleanup"
          /\ reqs'[r].pc = "done"
          /\ reqs'[r].result = "ok"
    /\ Len(chat_sessions) > SessionLimit
    /\ \E i \in 1..EvictBatch : chat_sessions[i].sid = Other
    /\ SessionState(chat_sessions', objs', Other) = NoSession
    /\ download_progress'[Other] = download_progress[Other]

\* C8 as stated: no step of client 1 changes the transcript, the active
\* character, the model selection or the download record of the other session.
C8_OtherSessionUnchanged == [][OtherUntouched]_vars

\* C8: a step of client 1 leaves the other session's transcript, active
\* character, model selection and download record unchanged, unless it is the
\* cleanup after a successful chat turn that evicts the other session; the
\* download record is unchanged even then.
C8_UnchangedUnlessEvicted == [][OtherUntouched \/ OtherEvicted]_vars

\* Client 1 selected another chat model and chatted while the other session
\* kept its conversation.
C8_Witness ==
    /\ InTable(1)
    /\ objs[ObjOf(1)].selected_chat_model # selected_chat_model
    /\ Len(objs[ObjOf(1)].messages) >= 3
    /\ InTable(Other)
    /\ objs[ObjOf(Other)].selected_chat_model = selected_chat_model
    /\ Len(objs[ObjOf(Other)].messages) = 3

\* The step in which send_message tests the message and the character.
AskStep(r) ==
    /\ reqs[r].op = "send_message"
    /\ reqs[r].pc = "body"
    /\ reqs'[r].pc # "body"

\* C9 as stated: a message sent while no character is selected is refused with
\* 'No character selected' and the transcript stays as it was.
C9_RefusedNoCharacter ==
    [][\A r \in ReqIds :
          (AskStep(r) /\ objs[reqs[r].chat].current_character = NoCharacter)
              => /\ reqs'[r].pc = "done"
                 /\ reqs'[r].result = "No character selected"
                 /\ objs'[reqs[r].chat].messages = objs[reqs[r].chat].messages]_vars

\* C9: a message sent while no character is selected is refused and the
\* transcript stays as it was; the refusal is 'Message cannot be empty' when
\* the message is empty or blank and 'No character selected' otherwise.
C9_RefusedEmptyOrNoCharacter ==
    [][\A r \in ReqIds :
          (AskStep(r) /\ objs[reqs[r].chat].current_character = NoCharacter)
              => /\ reqs'[r].pc = "done"
                 /\ reqs'[r].result =
                        IF \A i \in 1..Len(reqs[r].arg) : IsSpace(reqs[r].arg[i])
                        THEN "Message cannot be empty"
                        ELSE "No character selected"
                 /\ objs'[reqs[r].chat].messages = objs[reqs[r].chat].messages]_vars

\* A message was refused for want of a character, after the session had
\* selected another chat model.
C9_Witness ==
    \E r \in ReqIds :
        /\ reqs[r].op = "send_message"
        /\ reqs[r].pc = "done"
        /\ reqs[r].result = "No character selected"
        /\ objs[reqs[r].chat].current_character = NoCharacter
        /\ objs[reqs[r].chat].selected_chat_model # selected_chat_model

\* The persona message of a preset: its system prompt, followed by the
\* profile clause when the preset has the user_profile key.
IsPersonaOf(message, preset) ==
    /\ message.role = "system"
    /\ message.content[1] = preset.system_prompt
    /\ IF preset.has_user_profile
       THEN /\ Len(message.content) = 3
            /\ message.content[2] = ProfileClause
            /\ message.content[3] = preset.user_profile
       ELSE Len(message.content) = 1

\* C10: when select_character succeeds, the transcript consists of exactly
\* one message, the persona message of the preset that was asked for.
C10_PersonaAfterSetCharacter ==
    [][\A r \in ReqIds :
          (reqs[r].op = "select_character" /\ reqs[r].pc # "done"
           /\ reqs'[r].pc = "done" /\ reqs'[r].result = "ok")
              => LET chat == objs'[reqs[r].chat] IN
                 /\ Len(chat.messages) = 1
                 /\ \E k \in DOMAIN chat.characters :
                       /\ chat.characters[k].name = reqs[r].arg[1]
                       /\ IsPersonaOf(chat.messages[1], chat.characters[k])]_vars

\* A character with an empty user profile was selected on a session that had
\* selected another image model before.
C10_Witness ==
    \E r \in ReqIds :
        /\ reqs[r].op = "select_character"
        /\ reqs[r].pc = "done"
        /\ reqs[r].result = "ok"
        /\ reqs[r].arg = <<"Poet">>
        /\ Len(objs[reqs[r].chat].messages) = 1
        /\ objs[reqs[r].chat].selected_image_model # selected_image_model

\* The step in which ollama.chat raises during a send_message request.
AskFailStep(r) ==
    /\ reqs[r].op = "send_message"
    /\ reqs[r].pc = "rpc"
    /\ reqs'[r].pc = "done"

\* C11: a message sent with a character selected is accepted and adds exactly
\* its user turn to the transcript, whatever happened to earlier messages;
\* when the chat RPC then fails the request reports the failure and the
\* transcript keeps that user turn as its last message, without a reply.
C11_FailedAskKeepsUserTurn ==
    [][\A r \in ReqIds :
          LET before == objs[reqs[r].chat].messages
              after == objs'[reqs[r].chat].messages
          IN  /\ (AskStep(r) /\ objs[reqs[r].chat].current_character # NoCharacter
                   /\ \E i \in 1..Len(reqs[r].arg) : ~IsSpace(reqs[r].arg[i]))
                     => /\ reqs'[r].pc = "rpc"
                        /\ Len(after) = Len(before) + 1
                        /\ SubSeq(after, 1, Len(before)) = before
                        /\ after[Len(after)].role = "user"
              /\ AskFailStep(r)
                     => /\ reqs'[r].result = "upstream failure"
                        /\ after = before
                        /\ before[Len(before)].role = "user"]_vars

\* A message is accepted right after the chat RPC failed for the one before:
\* the transcript ends in two user turns.
C11_Witness ==
    \E r \in ReqIds :
        LET messages == objs[reqs[r].chat].messages IN
        /\ reqs[r].op = "send_message"
        /\ reqs[r].pc = "rpc"
        /\ Len(messages) >= 3
        /\ messages[Len(messages)].role = "user"
        /\ messages[Len(messages) - 1].role = "user"

\* C12: reset_chat leaves the transcript empty when no character is selected
\* and otherwise leaves exactly the persona message of the active character,
\* profile clause included.
C12_ResetRestoresPersona ==
    [][\A r \in ReqIds :
          (reqs[r].op = "reset_chat" /\ reqs[r].pc = "body" /\ reqs'[r].pc = "done")
              => LET chat == objs[reqs[r].chat]
                     after == objs'[reqs[r].chat].messages
                 IN  IF chat.current_character = NoCharacter
                     THEN after = <<>>
                     ELSE /\ Len(after) = 1
                          /\ IsPersonaOf(after[1], chat.current_character)]_vars

\* ------------------------------------------------------- registry claims

\* C13: a reset of a session whose active character is still in the registry
\* rebuilds the persona from the registry's present system prompt for that key.
C13_ResetUsesRegistry ==
    [][\A r \in ReqIds :
          (reqs[r].op = "reset_chat" /\ reqs[r].pc = "body" /\ reqs'[r].pc = "done")
              => LET chat == objs[reqs[r].chat]
                     after == objs'[reqs[r].chat].messages
                 IN  (chat.current_key # "" /\ character_file.exists
                      /\ chat.current_key \in DOMAIN character_file.data)
                        => /\ Len(after) = 1
                           /\ after[1].content[1] =
                                  character_file.data[chat.current_key].system_prompt]_vars

\* The fields a create or edit form submits, as stored in a character map.
HasSubmitted(characters, key, arg) ==
    /\ key \in DOMAIN characters
    /\ characters[key].name = arg[2]
    /\ characters[key].role = Or(arg[3], "Custom Character")
    /\ characters[key].system_prompt = Or(arg[4], DefaultPrompt[arg[2]])
    /\ characters[key].image_caption_prompt = Or(arg[5], "Describe this image")

\* C14: when a create or edit request has reported success, the file and the
\* character map of every open session hold the key with the submitted fields.
C14_UpsertApplied ==
    \A r \in ReqIds :
        (reqs[r].pc = "done" /\ reqs[r].result = "ok"
         /\ reqs[r].op \in {"create_character", "api_edit_character"})
            => LET arg == reqs[r].arg
                   key == IF arg[1] = "" THEN KeyOf[arg[2]] ELSE arg[1]
               IN  /\ character_file.exists
                   /\ HasSubmitted(character_file.data, key, arg)
                   /\ \A i \in 1..Len(chat_sessions) :
                         HasSubmitted(objs[chat_sessions[i].obj].characters, key, arg)

\* Every built-in character is in the file and in every open session's map.
DefaultsPresent(file, heap, table) ==
    /\ file.exists => DOMAIN DefaultCharacters \subseteq DOMAIN file.data
    /\ \A i \in 1..Len(table) :
          DOMAIN DefaultCharacters \subseteq DOMAIN heap[table[i].obj].characters

\* C15: a delete request for a built-in character is refused as protected and
\* changes neither the file nor any session's map; after every step the
\* built-in characters are all in the file and in every open session's map.
C15_DefaultsProtected ==
    [][/\ \A r \in ReqIds :
             (reqs[r].op = "api_delete_character" /\ reqs[r].pc = "validate"
              /\ reqs[r].arg[1] \in DOMAIN DefaultCharacters)
                 => (reqs'[r].pc = "validate"
                     \/ /\ reqs'[r].pc = "done"
                        /\ reqs'[r].result = "Cannot delete default characters"
                        /\ character_file' = character_file
                        /\ objs' = objs)
       /\ DefaultsPresent(character_file', objs', chat_sessions')]_vars

\* The deletion of a built-in character was refused after a custom character
\* had been deleted.
C15_Witness ==
    \E r \in ReqIds :
        /\ reqs[r].op = "api_delete_character"
        /\ reqs[r].pc = "done"
        /\ reqs[r].result = "Cannot delete default characters"
        /\ character_file.exists
        /\ "poet" \notin DOMAIN character_file.data
        /\ Len(chat_sessions) = 2

\* C16: when concurrent requests of different sessions on distinct keys have
\* reported success, the file reflects each of them.
C16_NoLostUpdate ==
    \A r \in ReqIds :
        (reqs[r].pc = "done" /\ reqs[r].result = "ok" /\ character_file.exists)
            => /\ reqs[r].op = "create_character"
                     => KeyOf[reqs[r].arg[2]] \in DOMAIN character_file.data
               /\ reqs[r].op = "api_edit_character"
                     => /\ reqs[r].arg[1] \in DOMAIN character_file.data
                        /\ character_file.data[reqs[r].arg[1]].system_prompt = reqs[r].arg[4]
               /\ reqs[r].op = "api_delete_character"
                     => reqs[r].arg[1] \notin DOMAIN character_file.data

\* ------------------------------------------------------- eviction claims

\* C17: while a request that writes a session's transcript is between its
\* lookup and its answer, the session table holds that session with the
\* object the request works on; and no lookup finds its session gone.
C17_NoEvictionWhileInUse ==
    \A r \in ReqIds :
        /\ (reqs[r].op \in {"send_message", "select_character"}
             /\ reqs[r].pc \in {"body", "rpc", "set_messages"})
                => /\ InTable(reqs[r].sid)
                   /\ ObjOf(reqs[r].sid) = reqs[r].chat
        /\ reqs[r].pc = "done" => reqs[r].result # "KeyError"

\* C18: the session table never holds more entries than the eviction
\* threshold and the one session whose request triggers the eviction.
C18_TableBounded == Len(chat_sessions) <= SessionLimit + 1

\* ------------------------------------------------- download outcome claims

\* C19: once the thread that created a session's job record has ended, the
\* record, while it is there, has status completed or error.
C19_EndedJobIsTerminal ==
    \A s \in ClientIds :
        (HasJob(s) /\ job_task[s] # NoThread /\ threads[job_task[s]].pc = "dead")
            => Terminal(download_progress[s].status)

LineWith(text) == CHOOSE line \in Lines : line.text = text

\* C20: the pull of "llama3.2:3b" that reads "pulling manifest",
\* "pulling config...", "pulling abc123... 50.0MB/100.0MB" and exit code 0
\* writes the progress values 10, 15, 50, 100 and ends with status completed.
C20_ScriptedProgress ==
    \A t \in TaskIds :
        (/\ threads[t].pc \in {"finally", "dead"}
         /\ threads[t].model = "llama3.2:3b"
         /\ script.lines = <<LineWith("pulling manifest"), LineWith("pulling config..."),
                             LineWith("pulling abc123... 50.0MB/100.0MB")>>
         /\ script.rc = 0)
            => /\ observed = <<10, 15, 50, 100>>
               /\ download_progress[threads[t].sid].status = "completed"

\* That pull has ended.
C20_Witness ==
    \E t \in TaskIds :
        /\ threads[t].pc = "dead"
        /\ threads[t].model = "llama3.2:3b"
        /\ script.lines = <<LineWith("pulling manifest"), LineWith("pulling config..."),
                            LineWith("pulling abc123... 50.0MB/100.0MB")>>
        /\ script.rc = 0
        /\ observed = <<10, 15, 50, 100>>

\* ----------------------------------------------------------- ask claims

\* The step in which send_message accepts the message and ask stores it.
AskStores(r) == AskStep(r) /\ reqs'[r].pc = "rpc"

\* The trimmed message begins and ends with an asterisk.
Wrapped(t) == Len(t) >= 2 /\ t[1] = "*" /\ t[Len(t)] = "*"

\* C21: the user turn that ask stores is a narrated action exactly when the
\* trimmed message is wrapped in asterisks, "*waves hello*" giving the action
\* text "waves hello"; any other message is stored as it was sent.
C21_ActionExactlyWhenWrapped ==
    [][\A r \in ReqIds :
          AskStores(r)
              => LET t == Strip(reqs[r].arg)
                     after == objs'[reqs[r].chat].messages
                     stored == after[Len(after)].content
                 IN  /\ Wrapped(t) => /\ Len(stored) >= 2
                                      /\ stored[1] = "(The user performs an action: "
                                      /\ stored[Len(stored)] = ")"
                     /\ t = <<"*", "waves hello", "*">>
                           => stored = <<"(The user performs an action: ", "waves hello", ")">>
                     /\ ~Wrapped(t) => stored = t]_vars

\* C22: selecting a character that the session's registry does not hold is
\* refused with 'Character not found' and leaves the session's transcript,
\* active character and everything else of its state as they were.
C22_UnknownCharacterRefused ==
    [][\A r \in ReqIds :
          (/\ reqs[r].op = "select_character"
           /\ reqs[r].pc = "body"
           /\ reqs'[r].pc # "body"
           /\ KeysNamed(objs[reqs[r].chat].characters, reqs[r].arg[1]) = {})
              => /\ reqs'[r].pc = "done"
                 /\ reqs'[r].result = "Character not found"
                 /\ objs'[reqs[r].chat] = objs[reqs[r].chat]]_vars

\* An unknown character was refused in a session that has a character and a
\* transcript.
C22_Witness ==
    \E r \in ReqIds :
        /\ reqs[r].op = "select_character"
        /\ reqs[r].pc = "done"
        /\ reqs[r].result = "Character not found"
        /\ objs[reqs[r].chat].current_character # NoCharacter
        /\ Len(objs[reqs[r].chat].messages) >= 3

\* ------------------------------------------------- download request claims

\* The pieces make a model name of letters, digits, '.', '_', ':' and '-' only.
WellFormedName(name) ==
    /\ name # <<>>
    /\ \A i \in 1..Len(name) : name[i] \notin {" ", "/"}

WellFormedNames == {Joined(name) : name \in {n \in NameArgs : WellFormedName(n)}}

\* C23: no request, thread or job record exists for a model name that is
\* empty or holds a character outside letters, digits, '.', '_', ':', '-'.
C23_MalformedNameRejected ==
    /\ \A t \in TaskIds : threads[t].req # "idle" => threads[t].model \in WellFormedNames
    /\ \A s \in ClientIds : HasJob(s) => download_progress[s].model \in WellFormedNames

\* ------------------------------------------------- progress range claims

\* C24: the progress of every job record is between 0 and 100.
C24_ProgressInRange ==
    \A s \in ClientIds :
        HasJob(s) => download_progress[s].progress \in 0..100

\* C25: a job record whose status is downloading has a progress of at most
\* the cap of 95.
C25_CappedWhileDownloading ==
    \A s \in ClientIds :
        download_progress[s].status = "downloading"
            => download_progress[s].progress <= ProgressCap

\* ----------------------------------------------------- exit code claims

\* The step in which thread t writes the final status (lines 318-341).
FinalStep(t) == threads[t].pc = "final" /\ threads'[t].pc # "final"

\* C26: when the process has exited and the session's job is downloading, the
\* final update gives status completed and progress 100 for exit code 0, and
\* status error, progress 0 and a message with the exit code for any other.
C26_ExitCodeDecides ==
    [][\A t \in TaskIds :
          LET s == threads[t].sid
              rc == threads[t].rc
          IN  (FinalStep(t) /\ rc \in ExitCodes
               /\ download_progress[s].status = "downloading")
                  => IF rc = 0
                     THEN /\ download_progress'[s].status = "completed"
                          /\ download_progress'[s].progress = 100
                     ELSE /\ download_progress'[s].status = "error"
                          /\ download_progress'[s].progress = 0
                          /\ download_progress'[s].message.kind =
                                 "Failed to download: Process returned code"
                          /\ download_progress'[s].message.a = rc]_vars

\* A pull that had reached 50 ended with a non-zero exit code.
C26_Witness ==
    /\ script.lines = <<LineWith("pulling abc123... 50.0MB/100.0MB")>>
    /\ script.rc # 0
    /\ observed = <<50, 0>>
    /\ \E s \in ClientIds : download_progress[s].status = "error"

\* ----------------------------------------------------- start and poll claims

\* C27: once the request that started thread t has returned success, and
\* until the thread's first progress update, the session's job record is the
\* one of this download: status downloading, progress 0, the requested model.
C27_RecordExistsAfterStart ==
    \A t \in TaskIds :
        (threads[t].req = "done" /\ threads[t].pc \in {"init", "check"})
            => LET rec == download_progress[threads[t].sid] IN
               /\ job_task[threads[t].sid] = t
               /\ rec.status = "downloading"
               /\ rec.progress = 0
               /\ rec.model = threads[t].model

\* C28: a poll changes a session's job record only by discarding it, and
\* discards only a record whose status is completed or error and whose start
\* lies more than the grace window back.
C28_PollDiscardsOnlyExpired ==
    [][\A r \in ReqIds :
          LET s == reqs[r].sid IN
          (/\ reqs[r].op = "get_download_progress"
           /\ reqs[r].pc # "done"
           /\ reqs'[r].pc = "done"
           /\ download_progress'[s] # download_progress[s])
              => /\ download_progress'[s] = NoJob
                 /\ Terminal(download_progress[s].status)
                 /\ now - download_progress[s].started_at > GraceWindow]_vars

\* C29: while the thread of a cancelled download is still running (its start
\* has returned and the session no longer tracks it), the session has no job
\* record.
C29_CancelledStaysAbsent ==
    \A t \in TaskIds :
        (/\ threads[t].req = "done"
         /\ IsAlive(t)
         /\ download_threads[threads[t].sid] = NoThread)
            => ~HasJob(threads[t].sid)

\* ------------------------------------------------------- parsing claims

\* The step in which thread t reads the next line of the script.
ReadsLine(t) == threads[t].pc = "loop" /\ script'.next = script.next + 1

\* C30: a line updates the record by one rule only: by its byte-count ratio
\* when it has one, else by its percentage when it has one (both capped at
\* 95, the status untouched), else by the first of the keywords manifest
\* (10), config (15), verifying (90), success or complete (completed, 100);
\* a line with none of these changes nothing.
C30_FirstRuleWins ==
    [][\A t \in TaskIds :
          ReadsLine(t)
              => LET line == script.lines[script.next]
                     before == download_progress[threads[t].sid]
                     after == download_progress'[threads[t].sid]
                     ratio == Len(line.size) = 2 /\ line.size[2] > 0
                     percent == Len(line.pct) = 1
                     has(k) == k \in line.kw
                 IN  IF ratio
                     THEN /\ after.progress = Min((line.size[1] * 100) \div line.size[2], ProgressCap)
                          /\ after.status = before.status
                     ELSE IF percent
                     THEN /\ after.progress = Min(line.pct[1], ProgressCap)
                          /\ after.status = before.status
                     ELSE IF has("pulling manifest")
                     THEN after.progress = 10 /\ after.status = before.status
                     ELSE IF has("pulling") /\ has("config")
                     THEN after.progress = 15 /\ after.status = before.status
                     ELSE IF has("verifying")
                     THEN after.progress = 90 /\ after.status = before.status
                     ELSE IF has("success") \/ has("complete")
                     THEN after.progress = 100 /\ after.status = "completed"
                     ELSE after = before]_vars

\* A line with a percentage and the word "success" has been read: the
\* progress is the percentage and the job is still downloading.
C30_Witness ==
    /\ script.next = 2
    /\ script.lines[1].size = <<>>
    /\ script.lines[1].pct = <<45>>
    /\ "success" \in script.lines[1].kw
    /\ observed = <<45>>
    /\ \E s \in ClientIds : /\ download_progress[s].status = "downloading"
                            /\ download_progress[s].progress = 45

\* ------------------------------------------------- eviction batch claims

\* The step in which request r runs cleanup_old_sessions.
CleanupStep(r) == reqs[r].pc = "cleanup" /\ reqs'[r].pc = "done"

\* The CharacterChat objects the entries of a table refer to.
Held(table) == {table[i].obj : i \in 1..Len(table)} \cap ObjIds

C32_SystemOnlyFirst ==
    \A o \in ObjIds :
        \A i \in 1..Len(objs[o].messages) :
            objs[o].messages[i].role = "system" => i = 1

\* A reset has been answered on a session whose transcript holds the persona
\* message and a later turn.
C32_Witness ==
    \E r \in ReqIds :
        /\ reqs[r].op = "reset_chat"
        /\ reqs[r].pc = "done"
        /\ Len(objs[reqs[r].chat].messages) >= 2
        /\ objs[reqs[r].chat].messages[1].role = "system"

\* C35: in every transcript the message before an assistant message is a
\* user message.
C35_AssistantFollowsUser ==
    \A o \in ObjIds :
        \A i \in 1..Len(objs[o].messages) :
            objs[o].messages[i].role = "assistant"
                => i > 1 /\ objs[o].messages[i - 1].role = "user"

\* ------------------------------------------------------ job record claims

\* C33: a job record whose status is completed has progress 100.
C33_CompletedIsFull ==
    \A s \in ClientIds :
        download_progress[s].status = "completed" => download_progress[s].progress = 100

\* C34: while a job record stays the record of one job, whatever is written
\* to it is about that job's model; and the tracking entry of a thread is
\* removed by a request or when that thread ends, never by another thread.
C34_OnlyOwnTaskWrites ==
    [][\A s \in ClientIds :
          /\ (/\ HasJob(s)
              /\ job_task'[s] = job_task[s]
              /\ download_progress'[s] # download_progress[s])
                 => download_progress'[s].message.model \in {download_progress[s].model, ""}
          /\ \A t \in TaskIds :
                (download_threads[s] = t /\ download_threads'[s] = NoThread)
                    => threads' = threads \/ threads'[t].pc = "dead"]_vars

\* ------------------------------------------------- self eviction claims

\* The transcript ends in the user turn and the reply of request r.
EndsInExchange(messages, r) ==
    /\ Len(messages) >= 2
    /\ messages[Len(messages) - 1].role = "user"
    /\ messages[Len(messages) - 1].turn = r
    /\ messages[Len(messages)].role = "assistant"
    /\ messages[Len(messages)].turn = r

\* C36: when send_message returns success, the session of the request is in
\* the session table with a transcript that ends in the request's user turn
\* and reply.
C36_RequesterKept ==
    [][\A r \in ReqIds :
          CleanupStep(r)
              => /\ \E i \in 1..Len(chat_sessions') : chat_sessions'[i].sid = reqs[r].sid
                 /\ EndsInExchange(objs'[reqs[r].chat].messages, r)]_vars

====
